---------------------------- MODULE Spec2Model ----------------------------
(***************************************************************************)
(* A model of micrawl's scraping core: the shared-browser manager          *)
(* (getBrowser / launchBrowser / closeSharedBrowser), the two drivers      *)
(* (runPlaywrightScrape, runHttpScrape), runScrapeJob and the streaming    *)
(* batch executor of POST /scrape.                                         *)
(*                                                                         *)
(* Strings are sequences of tokens: a token is a run of characters that    *)
(* the code never looks inside, except through ToLowerCase.                *)
(***************************************************************************)
EXTENDS Integers, Sequences, FiniteSets, TLC

(* ------------------------------ bounds --------------------------------- *)

\* Largest batch (number of target URLs of one request).
MaxJobs == 2

\* Largest maxDepth and maxPages options of a crawl.
MaxDepthBound == 2
MaxPagesBound == 3

\* Browser launches one behaviour may start.
MaxLaunches == 3

\* Concurrent tasks that acquire the shared browser (SpecBrowser).
NumCallers == 2

(* --------------------------- strings, URLs ----------------------------- *)

NoMsg == << >>

ToLowerCase(tok) ==
    CASE tok = "PDF" -> "pdf"
      [] tok = "Timeout" -> "timeout"
      [] tok = "net::ERR_NAME_NOT_RESOLVED" -> "net::err_name_not_resolved"
      [] tok = "net::ERR_CONNECTION" -> "net::err_connection"
      [] OTHER -> tok

LowerAll(s) == [i \in 1..Len(s) |-> ToLowerCase(s[i])]

\* The pathnames of the target URLs (all on one origin); a batch holds
\* distinct canonical URLs, so a URL is named by its pathname.
PathRoot == <<"/">>
PathReport == <<"/", "report", ".", "pdf">>
PathTimeoutPdf == <<"/", "timeout", ".", "PDF">>
PathPage == <<"/", "page", ".", "html">>

TargetUrls == {PathRoot, PathReport, PathTimeoutPdf, PathPage}

DISALLOWED_FILE_EXTENSIONS ==
    { <<".", e>> : e \in {"pdf", "zip", "rar", "7z", "tar", "gz", "bz2", "mp4",
                          "mp3", "avi", "mov", "mkv", "flac", "wav", "woff",
                          "woff2", "ttf", "otf"} }

\* String.prototype.lastIndexOf("."): 0 stands for -1 (indices are 1-based).
LastIndexOfDot(pathname) ==
    LET dots == {i \in 1..Len(pathname) : pathname[i] = "."}
    IN  IF dots = {} THEN 0 ELSE CHOOSE i \in dots : \A j \in dots : j <= i

isBlockedExtension(pathname) ==
    LET dotIndex == LastIndexOfDot(pathname)
    IN  IF dotIndex = 0
        THEN FALSE
        ELSE LowerAll(SubSeq(pathname, dotIndex, Len(pathname)))
                 \in DISALLOWED_FILE_EXTENSIONS

\* new URL(href).pathname: the text before the query and the fragment.
Pathname(href) ==
    LET marks == {i \in 1..Len(href) : href[i] \in {"?", "#"}}
    IN  IF marks = {} THEN href
        ELSE SubSeq(href, 1, (CHOOSE i \in marks : \A j \in marks : i <= j) - 1)

DisallowedPrefix == "Disallowed file extension: "

DisallowedMessage(pathname) == <<DisallowedPrefix>> \o pathname

\* RegExp.test with the i flag, for a pattern that is one token.
TestI(pattern, message) ==
    \E i \in 1..Len(message) : ToLowerCase(message[i]) = pattern

\* A table that looks for a DNS failure before it looks for a timeout.
mapErrorToPageErrorDnsFirst(message) ==
    IF TestI("net::err_name_not_resolved", message)
    THEN <<"DNS resolution failed for the requested host">>
    ELSE IF TestI("timeout", message)
    THEN <<"Timed out while loading the page">>
    ELSE IF TestI("net::err_connection", message)
    THEN <<"Connection error encountered while fetching the page">>
    ELSE message

mapErrorToPageError(message) ==
    IF TestI("timeout", message)
    THEN <<"Timed out while loading the page">>
    ELSE IF TestI("net::err_name_not_resolved", message)
    THEN <<"DNS resolution failed for the requested host">>
    ELSE IF TestI("net::err_connection", message)
    THEN <<"Connection error encountered while fetching the page">>
    ELSE message

\* Longest exception text handed to the mapping, in tokens.
MaxTextLen == 3

\* The pieces exception texts are made of.
TextTokens ==
    {"page.goto: ", "Timeout", "net::ERR_NAME_NOT_RESOLVED",
     "net::err_connection", "_REFUSED", " 5000ms exceeded"}

ErrorTexts == UNION { [1..n -> TextTokens] : n \in 1..MaxTextLen }

\* Texts of the exceptions the browser and the network raise.
RawErrors ==
    { <<"page.goto: ", "Timeout", " 5000ms exceeded">>,
      <<"net::ERR_CONNECTION", "_REFUSED">>,
      <<"Target closed">> }

\* Text of an exception that escapes a driver's run.
ThrownErrors == { <<"boom">> }

(* ------------------------------ state ---------------------------------- *)

VARIABLES
    \* shared-browser manager
    launches,               \* launch id -> state of that launch and its browser
    nLaunch,                \* launches started so far
    cachedBrowserPromise,   \* launch id of the cached promise, 0 for null
    cachedBrowserInstance,  \* launch id of the cached browser, 0 for null
    closeCalls,             \* <<browser, who>>: browser.close() calls made
    closed,                 \* closeSharedBrowser ran, and no getBrowser since
    \* tasks acquiring the browser concurrently (SpecBrowser)
    cpc,                    \* caller -> "idle" | "await" | "holding" | "failed"
    cprom,                  \* caller -> launch id of the promise it was given
    \* the batch executor of POST /scrape
    urls,                   \* the batch: canonical target URLs, in input order
    driverName,             \* the driver resolveDriverName gives the jobs
    pc,                     \* "loop" | "job" | "done"
    jobIndex,               \* 0-based index of the current job
    succeededCount,
    failedCount,
    summary,                \* [succeeded, failed, failures]
    stream,                 \* the records written to the sink, in order
    \* the job being run by a driver
    dpc,                    \* position inside the driver's run
    jobProm,                \* launch id of the promise the job awaits / holds
    context,                \* "none" | "open" | "closed"
    page,                   \* "none" | "open" | "closed"
    outcome,                \* what the driver's run has determined so far
    closeErrors,            \* closes of the job that threw (logged, swallowed)
    timedOut,               \* readiness waits on the open page that timed out (logged)
    effects,                \* <<job index, "launch" | "goto" | "fetch">>
    \* a direct call of runScrapeJob(job) (SpecJob)
    job,                    \* the ScrapeJob's options
    defaultDriver,          \* getEnv().SCRAPER_DEFAULT_DRIVER
    resolved,               \* what the dispatcher resolved for the job
    result,                 \* what the call produced
    \* validation of a POST /scrape payload (SpecRequest)
    rawUrls,                \* the `urls` of the payload, as sent
    issues,                 \* the issues the schema's transform added
    \* the abort timer of the lightweight-fetch driver's run
    timer,                  \* "none" | "armed" | "fired" | "cleared"
    overdue,                \* timeoutMs passed before the response was complete
    \* crawl(startUrl, options) of the MCP server (SpecCrawl)
    maxDepth,
    maxPages,
    queue,                  \* items [url, depth] still to visit, in order
    visited,                \* URLs taken from the queue so far
    scraped,                \* pages scraped successfully
    yielded,                \* the results yielded, in order
    attempts,               \* the URLs scrape() was called with, in order
    crawlPc,                \* "loop" | "yield" | "done"
    vpc,                    \* where verifyChromiumLaunch stands
    vprom,                  \* the launch the probe awaits or holds (0: none)
    vcontext,               \* the probe's context: "none" | "open" | "closed"
    vpage,                  \* the probe's page: "none" | "open" | "closed"
    vthrew,                 \* the probe's try block or a close threw
    errorText,              \* the exception text handed to mapErrorToPageError
    pageError               \* what mapErrorToPageError returned for it

browserVars == <<launches, nLaunch, cachedBrowserPromise, cachedBrowserInstance,
                 closeCalls, closed>>
callerVars == <<cpc, cprom>>
batchVars == <<urls, driverName, pc, jobIndex, succeededCount, failedCount,
               summary, stream>>
jobVars == <<dpc, jobProm, context, page, outcome, closeErrors, timedOut,
            effects>>
callVars == <<job, defaultDriver, resolved, result>>
requestVars == <<rawUrls, issues>>
httpVars == <<timer, overdue>>
crawlVars == <<maxDepth, maxPages, queue, visited, scraped, yielded, attempts,
              crawlPc>>
verifyVars == <<vpc, vprom, vcontext, vpage, vthrew>>
mapVars == <<errorText, pageError>>
vars == <<browserVars, callerVars, batchVars, jobVars, callVars, requestVars,
          httpVars, crawlVars, verifyVars, mapVars>>

Callers == 1..NumCallers
LaunchIds == 1..MaxLaunches

\* A launch whose promise has resolved with a browser.
Resolved(l) == launches[l] \in {"connected", "closing", "disconnected"}

NoOutcome == [kind |-> "none", raw |-> NoMsg, status |-> 0]

InitBrowser ==
    /\ launches = [l \in LaunchIds |-> "unused"]
    /\ nLaunch = 0
    /\ cachedBrowserPromise = 0
    /\ cachedBrowserInstance = 0
    /\ closeCalls = {}
    /\ closed = FALSE

InitCallers ==
    /\ cpc = [c \in Callers |-> "idle"]
    /\ cprom = [c \in Callers |-> 0]

InitJob ==
    /\ dpc = "idle"
    /\ jobProm = 0
    /\ context = "none"
    /\ page = "none"
    /\ outcome = NoOutcome
    /\ closeErrors = {}
    /\ timedOut = {}
    /\ effects = {}

\* An option the job does not carry (undefined).
Absent == "absent"

NoJob ==
    [targetUrl |-> "https://example.com/", driver |-> Absent,
     waitForSelector |-> Absent, viewport |-> Absent, locale |-> Absent,
     timezoneId |-> Absent, captureTextOnly |-> TRUE, outputFormats |-> << >>]
NoResolution == [name |-> "none", driver |-> "none"]
\* `conversion` records what the markdown converter did during the run.
NoResult ==
    [status |-> "none", contents |-> << >>, driver |-> "none",
     conversion |-> "none"]

\* The payload has passed validation (or there is none).
InitNoRequest ==
    /\ rawUrls = << >>
    /\ issues = {}

\* No abort timer exists before a lightweight-fetch run creates one.
InitTimer ==
    /\ timer = "none"
    /\ overdue = FALSE

\* No crawl is under way.
InitNoCrawl ==
    /\ maxDepth = 0
    /\ maxPages = 0
    /\ queue = << >>
    /\ visited = {}
    /\ scraped = 0
    /\ yielded = << >>
    /\ attempts = << >>
    /\ crawlPc = "done"

\* No exception text is being mapped.
InitNoMap ==
    /\ errorText = NoMsg
    /\ pageError = NoMsg

\* No health probe is under way.
InitNoVerify ==
    /\ vpc = "idle"
    /\ vprom = 0
    /\ vcontext = "none"
    /\ vpage = "none"
    /\ vthrew = FALSE

\* The options buildScrapeJob copies from the request into every job of the
\* batch: with or without a waitForSelector.
InitOptions ==
    /\ job \in {NoJob, [NoJob EXCEPT !.waitForSelector = "#main"]}
    /\ defaultDriver = "playwright"
    /\ resolved = NoResolution
    /\ result = NoResult

\* No direct call of runScrapeJob is under way.
InitNoCall ==
    /\ job = NoJob
    /\ defaultDriver = "playwright"
    /\ resolved = NoResolution
    /\ result = NoResult


(* ---------------------- shared-browser manager ------------------------- *)

\* launchBrowser(): a new launch is in flight; its id names both the promise
\* and the browser it will resolve with.
launchBrowser ==
    /\ nLaunch < MaxLaunches
    /\ nLaunch' = nLaunch + 1
    /\ launches' = [launches EXCEPT ![nLaunch + 1] = "pending"]

\* getBrowser(): the caller is handed cachedBrowserPromise' .
getBrowser ==
    /\ closed' = FALSE
    /\ IF cachedBrowserPromise = 0
       THEN launchBrowser /\ cachedBrowserPromise' = nLaunch + 1
       ELSE UNCHANGED <<launches, nLaunch, cachedBrowserPromise>>

\* Text of the exception a failed launch rejects with.
LaunchError == <<"browserType.launch: ", "Failed to launch">>

\* The continuation of a job suspended in `await getBrowser()`.
JobAwaits(l) == dpc = "awaitBrowser" /\ jobProm = l

\* The continuation of a health probe suspended in `await getBrowser()`.
VerifyAwaits(l) == vpc = "await" /\ vprom = l

\* playwrightChromium.launch resolves: launchBrowser caches the instance and
\* registers the "disconnected" handler; every task awaiting the promise
\* resumes with the browser in the same turn.
LaunchSucceed(l) ==
    /\ launches[l] = "pending"
    /\ launches' = [launches EXCEPT ![l] = "connected"]
    /\ cachedBrowserInstance' = l
    /\ cpc' = [c \in Callers |->
                 IF cpc[c] = "await" /\ cprom[c] = l THEN "holding" ELSE cpc[c]]
    /\ dpc' = IF JobAwaits(l) THEN "newContext" ELSE dpc
    /\ vpc' = IF VerifyAwaits(l) THEN "newContext" ELSE vpc
    /\ UNCHANGED <<nLaunch, cachedBrowserPromise, closeCalls, closed, cprom, batchVars,
                   jobProm, context, page, outcome, closeErrors, timedOut,
                   effects>>
    /\ UNCHANGED <<callVars, requestVars, httpVars, crawlVars, vprom, vcontext,
                   vpage, vthrew, mapVars>>

\* A catch handler that rethrows and leaves the rejected promise cached.
LaunchFailKeepsPromise(l) ==
    /\ launches[l] = "pending"
    /\ nLaunch < MaxLaunches
    /\ launches' = [launches EXCEPT ![l] = "failed"]
    /\ cpc' = [c \in Callers |->
                 IF cpc[c] = "await" /\ cprom[c] = l THEN "failed" ELSE cpc[c]]
    /\ IF JobAwaits(l)
       THEN /\ dpc' = "finally"
            /\ outcome' = [kind |-> "fail", raw |-> LaunchError, status |-> 0]
       ELSE UNCHANGED <<dpc, outcome>>
    /\ vpc' = IF VerifyAwaits(l) THEN "threw" ELSE vpc
    /\ UNCHANGED <<nLaunch, cachedBrowserPromise, cachedBrowserInstance,
                   closeCalls, closed, cprom, batchVars, jobProm, context, page,
                   closeErrors, timedOut, effects, callVars, requestVars, httpVars,
                   crawlVars, vprom, vcontext,
                   vpage, vthrew, mapVars>>

\* The launch rejects: getBrowser's catch handler clears the promise cache
\* and rethrows to every task awaiting the promise.
LaunchFail(l) ==
    /\ launches[l] = "pending"
    /\ nLaunch < MaxLaunches
    /\ launches' = [launches EXCEPT ![l] = "failed"]
    /\ cachedBrowserPromise' = 0
    /\ cpc' = [c \in Callers |->
                 IF cpc[c] = "await" /\ cprom[c] = l THEN "failed" ELSE cpc[c]]
    /\ IF JobAwaits(l)
       THEN /\ dpc' = "finally"
            /\ outcome' = [kind |-> "fail", raw |-> LaunchError, status |-> 0]
       ELSE UNCHANGED <<dpc, outcome>>
    /\ vpc' = IF VerifyAwaits(l) THEN "threw" ELSE vpc
    /\ UNCHANGED <<nLaunch, cachedBrowserInstance, closeCalls, closed, cprom, batchVars,
                   jobProm, context, page, closeErrors, timedOut,
                   effects>>
    /\ UNCHANGED <<callVars, requestVars, httpVars, crawlVars, vprom, vcontext,
                   vpage, vthrew, mapVars>>

\* A handler that forgets the promise cache.
DisconnectKeepsPromise(l) ==
    /\ launches[l] \in {"connected", "closing"}
    /\ nLaunch < MaxLaunches
    /\ launches' = [launches EXCEPT ![l] = "disconnected"]
    /\ cachedBrowserInstance' = 0
    /\ UNCHANGED <<nLaunch, cachedBrowserPromise, closeCalls, closed, callerVars,
                   batchVars, jobVars>>
    /\ UNCHANGED <<callVars, requestVars, httpVars, crawlVars, verifyVars, mapVars>>

\* The "disconnected" handler registered by launchBrowser (a crash, or the
\* end of a close).
Disconnect(l) ==
    /\ launches[l] \in {"connected", "closing"}
    /\ nLaunch < MaxLaunches
    /\ launches' = [launches EXCEPT ![l] = "disconnected"]
    /\ cachedBrowserPromise' = 0
    /\ cachedBrowserInstance' = 0
    /\ UNCHANGED <<nLaunch, closeCalls, closed, callerVars, batchVars, jobVars>>
    /\ UNCHANGED <<callVars, requestVars, httpVars, crawlVars, verifyVars, mapVars>>

closeSharedBrowser ==
    /\ nLaunch < MaxLaunches
    /\ cachedBrowserInstance' = 0
    /\ cachedBrowserPromise' = 0
    /\ closed' = TRUE
    /\ IF cachedBrowserInstance = 0
       THEN UNCHANGED <<launches, closeCalls>>
       ELSE /\ closeCalls' = closeCalls \cup
                               {<<cachedBrowserInstance, "closeSharedBrowser">>}
            /\ \/ launches' = [launches EXCEPT ![cachedBrowserInstance] = "closing"]
               \/ UNCHANGED launches  \* browser.close() rejects: logged
    /\ UNCHANGED <<nLaunch, callerVars, batchVars, jobVars>>
    /\ UNCHANGED <<callVars, requestVars, httpVars, crawlVars, verifyVars, mapVars>>

\* A task (a job of another request, a health probe) calls getBrowser().
CallerGetBrowser(c) ==
    /\ cpc[c] = "idle"
    /\ getBrowser
    /\ cprom' = [cprom EXCEPT ![c] = cachedBrowserPromise']
    /\ cpc' = [cpc EXCEPT ![c] =
                 IF cachedBrowserPromise # 0 /\ Resolved(cachedBrowserPromise)
                 THEN "holding" ELSE "await"]
    /\ UNCHANGED <<cachedBrowserInstance, closeCalls, batchVars, jobVars>>
    /\ UNCHANGED <<callVars, requestVars, httpVars, crawlVars, verifyVars, mapVars>>

\* The task is over (it used the browser, or reported the failure).
CallerDone(c) ==
    /\ cpc[c] \in {"holding", "failed"}
    /\ cpc' = [cpc EXCEPT ![c] = "idle"]
    /\ cprom' = [cprom EXCEPT ![c] = 0]
    /\ UNCHANGED <<browserVars, batchVars, jobVars>>
    /\ UNCHANGED <<callVars, requestVars, httpVars, crawlVars, verifyVars, mapVars>>

InitNoBatch ==
    /\ urls = << >>
    /\ driverName = "playwright"
    /\ pc = "done"
    /\ jobIndex = 0
    /\ succeededCount = 0
    /\ failedCount = 0
    /\ summary = [succeeded |-> 0, failed |-> 0, failures |-> << >>]
    /\ stream = << >>

InitBrowserOnly ==
    InitBrowser /\ InitCallers /\ InitNoBatch /\ InitJob /\ InitNoCall
      /\ InitNoRequest /\ InitTimer /\ InitNoCrawl /\ InitNoVerify /\ InitNoMap

NextBrowser ==
    \/ \E c \in Callers : CallerGetBrowser(c)
    \/ \E c \in Callers : CallerDone(c)
    \/ \E l \in LaunchIds : LaunchSucceed(l)
    \/ \E l \in LaunchIds : LaunchFail(l)
    \/ \E l \in LaunchIds : Disconnect(l)
    \/ closeSharedBrowser

\* The browser manager under concurrent acquisition.
SpecBrowser == InitBrowserOnly /\ [][NextBrowser]_vars


(* --------------------- health probe (verify) --------------------------- *)

\* The browser the probe holds still answers.
VerifyBrowserUp == vprom # 0 /\ launches[vprom] \in {"connected", "closing"}

\* `const browser = await getBrowser()`, before the try block.
VerifyStart ==
    /\ vpc = "idle"
    /\ getBrowser
    /\ vprom' = cachedBrowserPromise'
    /\ vpc' = IF cachedBrowserPromise # 0 /\ Resolved(cachedBrowserPromise)
              THEN "newContext" ELSE "await"
    /\ UNCHANGED <<cachedBrowserInstance, closeCalls, callerVars, batchVars,
                   jobVars, vcontext, vpage, vthrew>>
    /\ UNCHANGED <<callVars, requestVars, httpVars, crawlVars, mapVars>>

\* `const context = await browser.newContext()`, before the try block: a
\* rejection leaves verifyChromiumLaunch at once.
VerifyNewContext ==
    /\ vpc = "newContext"
    /\ \/ /\ VerifyBrowserUp
          /\ vcontext' = "open"
          /\ vpc' = "newPage"
          /\ UNCHANGED vthrew
       \/ /\ vpc' = "threw"
          /\ vthrew' = TRUE
          /\ UNCHANGED vcontext
    /\ UNCHANGED <<browserVars, callerVars, batchVars, jobVars, vprom, vpage>>
    /\ UNCHANGED <<callVars, requestVars, httpVars, crawlVars, mapVars>>

\* `const page = await context.newPage()`, before the try block: a rejection
\* leaves verifyChromiumLaunch at once.
VerifyNewPage ==
    /\ vpc = "newPage"
    /\ \/ /\ VerifyBrowserUp
          /\ vpage' = "open"
          /\ vpc' = "goto"
          /\ UNCHANGED vthrew
       \/ /\ vpc' = "threw"
          /\ vthrew' = TRUE
          /\ UNCHANGED vpage
    /\ UNCHANGED <<browserVars, callerVars, batchVars, jobVars, vprom, vcontext>>
    /\ UNCHANGED <<callVars, requestVars, httpVars, crawlVars, mapVars>>

\* The try block: page.goto, the response and status checks, and
\* waitForLoadState; any of them may throw.
VerifyGoto ==
    /\ vpc = "goto"
    /\ vpc' = "closePage"
    /\ \/ VerifyBrowserUp /\ UNCHANGED vthrew
       \/ vthrew' = TRUE
    /\ UNCHANGED <<browserVars, callerVars, batchVars, jobVars, vprom, vcontext,
                   vpage>>
    /\ UNCHANGED <<callVars, requestVars, httpVars, crawlVars, mapVars>>

\* finally: `try { await page.close() }`; a rejection still runs the inner
\* finally.
VerifyClosePage ==
    /\ vpc = "closePage"
    /\ vpage' = "closed"
    /\ vpc' = "closeContext"
    /\ \/ UNCHANGED vthrew
       \/ vthrew' = TRUE
    /\ UNCHANGED <<browserVars, callerVars, batchVars, jobVars, vprom, vcontext>>
    /\ UNCHANGED <<callVars, requestVars, httpVars, crawlVars, mapVars>>

\* The inner finally: `await context.close()`, then the probe returns or
\* rethrows.
VerifyCloseContext ==
    /\ vpc = "closeContext"
    /\ vcontext' = "closed"
    /\ \E rejects \in BOOLEAN :
         /\ vthrew' = (vthrew \/ rejects)
         /\ vpc' = IF vthrew' THEN "threw" ELSE "returned"
    /\ UNCHANGED <<browserVars, callerVars, batchVars, jobVars, vprom, vpage>>
    /\ UNCHANGED <<callVars, requestVars, httpVars, crawlVars, mapVars>>

\* The /health handler has answered; the next request probes again.
VerifyAgain ==
    /\ vpc \in {"returned", "threw"}
    /\ vpc' = "idle"
    /\ vprom' = 0
    /\ vcontext' = "none"
    /\ vpage' = "none"
    /\ vthrew' = FALSE
    /\ UNCHANGED <<browserVars, callerVars, batchVars, jobVars>>
    /\ UNCHANGED <<callVars, requestVars, httpVars, crawlVars, mapVars>>

NextVerify ==
    \/ VerifyStart
    \/ VerifyNewContext
    \/ VerifyNewPage
    \/ VerifyGoto
    \/ VerifyClosePage
    \/ VerifyCloseContext
    \/ VerifyAgain
    \/ \E l \in LaunchIds : LaunchSucceed(l)
    \/ \E l \in LaunchIds : LaunchFail(l)
    \/ \E l \in LaunchIds : Disconnect(l)
    \/ closeSharedBrowser

\* Health probes against the shared browser.
SpecVerify == InitBrowserOnly /\ [][NextVerify]_vars


(* -------------------------- error mapping ------------------------------ *)

\* The catch block of a job has an exception whose text is any of ErrorTexts.
InitMap ==
    /\ errorText \in ErrorTexts
    /\ pageError = NoMsg

\* failurePageError = mapErrorToPageError(failureRawMessage).
MapError ==
    /\ pageError = NoMsg
    /\ pageError' = mapErrorToPageError(errorText)
    /\ UNCHANGED errorText
    /\ UNCHANGED <<browserVars, callerVars, batchVars, jobVars, callVars,
                   requestVars, httpVars, crawlVars, verifyVars>>

InitMapOnly ==
    InitBrowser /\ InitCallers /\ InitNoBatch /\ InitJob /\ InitNoCall
      /\ InitNoRequest /\ InitTimer /\ InitNoCrawl /\ InitNoVerify /\ InitMap

\* mapErrorToPageError applied to one exception text.
SpecMap == InitMapOnly /\ [][MapError]_vars


(* ----------------------- records of the stream ------------------------- *)

NoUrl == << >>
NoSummary == [succeeded |-> -1, failed |-> -1, failures |-> << >>]

totalJobs == Len(urls)
sequence == jobIndex + 1
\* The batch read from its far end.
targetUrlReversed == urls[totalJobs - jobIndex]

targetUrl == urls[jobIndex + 1]

\* A snapshot that counts the running job as already completed.
captureProgressSnapshotAhead(completedCount) ==
    [completed |-> completedCount + 1,
     remaining |-> totalJobs - completedCount - 1,
     succeeded |-> succeededCount,
     failed |-> failedCount]

captureProgressSnapshot(completedCount) ==
    [completed |-> completedCount,
     remaining |-> totalJobs - completedCount,
     succeeded |-> succeededCount,
     failed |-> failedCount]

\* A phase update that counts its own job as completed.
ProgressUpdateCountsSelf(phase) ==
    [status |-> "progress", index |-> sequence, total |-> totalJobs,
     targetUrl |-> targetUrl, phase |-> phase,
     progress |-> captureProgressSnapshot(sequence),
     errors |-> << >>, message |-> NoMsg, driver |-> "none",
     summary |-> NoSummary]

\* The payload emitPhaseUpdate(phase) writes (completedCount = sequence - 1).
ProgressUpdate(phase) ==
    [status |-> "progress", index |-> sequence, total |-> totalJobs,
     targetUrl |-> targetUrl, phase |-> phase,
     progress |-> captureProgressSnapshot(sequence - 1),
     errors |-> << >>, message |-> NoMsg, driver |-> "none",
     summary |-> NoSummary]

\* ScrapeErrorDetail of a driver's failure envelope.
ErrorDetail(url, message, rawMessage, httpStatusCode) ==
    [targetUrl |-> url, message |-> message, rawMessage |-> rawMessage,
     httpStatusCode |-> httpStatusCode]

\* The detail the executor's catch branch synthesizes: targetUrl and message.
SynthesizedDetail(url, message) == ErrorDetail(url, message, NoMsg, 0)

\* The envelope a driver's run returns for `outcome`: runPlaywrightScrape maps
\* the raw text, buildHttpFailure keeps it (or "HTTP scrape failed" if empty).
FailureErrors(drv, url, oc) ==
    IF drv = "playwright"
    THEN << ErrorDetail(url, mapErrorToPageError(oc.raw), oc.raw, oc.status) >>
    ELSE LET message == IF oc.raw = NoMsg THEN <<"HTTP scrape failed">> ELSE oc.raw
         IN  << ErrorDetail(url, message, message, oc.status) >>

\* runScrapeJob's result: the driver's envelope plus the driver's name.
DriverResult(drv, url, oc) ==
    [status |-> IF oc.kind = "success" THEN "success" ELSE "fail",
     errors |-> IF oc.kind = "success" THEN << >> ELSE FailureErrors(drv, url, oc),
     driver |-> drv]

\* The terminal record of a job whose driver returned `record`, with the
\* counters as they stand after the job was tallied.
TerminalRecord(record, succeeded, failed) ==
    [status |-> record.status, index |-> sequence, total |-> totalJobs,
     targetUrl |-> targetUrl, phase |-> "completed",
     progress |-> [completed |-> sequence, remaining |-> totalJobs - sequence,
                   succeeded |-> succeeded, failed |-> failed],
     errors |-> record.errors, message |-> NoMsg, driver |-> record.driver,
     summary |-> NoSummary]

\* A catch branch that reports the exception as a handled failure.
ErrorRecordAsFail(message, succeeded, failed) ==
    [status |-> "fail", index |-> sequence, total |-> totalJobs,
     targetUrl |-> targetUrl, phase |-> "completed",
     progress |-> [completed |-> sequence, remaining |-> totalJobs - sequence,
                   succeeded |-> succeeded, failed |-> failed],
     errors |-> << SynthesizedDetail(targetUrl, message) >>,
     message |-> NoMsg, driver |-> "none", summary |-> NoSummary]

\* The ScrapeError payload of the catch branch.
ErrorRecord(message, succeeded, failed) ==
    [status |-> "error", index |-> sequence, total |-> totalJobs,
     targetUrl |-> targetUrl, phase |-> "completed",
     progress |-> [completed |-> sequence, remaining |-> totalJobs - sequence,
                   succeeded |-> succeeded, failed |-> failed],
     errors |-> << >>, message |-> message, driver |-> "none",
     summary |-> NoSummary]

\* A summary that reuses the sequence number of the last job.
summaryRecordAtTotal ==
    [status |-> "success", index |-> totalJobs, total |-> totalJobs,
     targetUrl |-> NoUrl, phase |-> "completed",
     progress |-> [completed |-> totalJobs, remaining |-> 0,
                   succeeded |-> summary.succeeded, failed |-> summary.failed],
     errors |-> << >>, message |-> NoMsg, driver |-> "none",
     summary |-> summary]

summaryRecord ==
    [status |-> "success", index |-> totalJobs + 1, total |-> totalJobs,
     targetUrl |-> NoUrl, phase |-> "completed",
     progress |-> [completed |-> totalJobs, remaining |-> 0,
                   succeeded |-> summary.succeeded, failed |-> summary.failed],
     errors |-> << >>, message |-> NoMsg, driver |-> "none",
     summary |-> summary]

\* stream.writeln(JSON.stringify(rec))
Emit(rec) == stream' = Append(stream, rec)

\* A loop that stops one job short.
MoreJobsButLast == jobIndex + 1 < totalJobs

\* The loop `for (const [jobIndex, job] of scrapeJobs.entries())` has a job left.
MoreJobs == jobIndex < totalJobs

(* --------------------------- batch executor ---------------------------- *)

\* A batch: 1..MaxJobs distinct canonical URLs (normalizeTargetUrls rejects
\* duplicates before any job is built).
Batches ==
    UNION { { b \in [1..n -> TargetUrls] :
                \A i, j \in 1..n : i # j => b[i] # b[j] } : n \in 1..MaxJobs }

InitBatch ==
    /\ urls \in Batches
    /\ driverName \in {"playwright", "http"}
    /\ pc = "loop"
    /\ jobIndex = 0
    /\ succeededCount = 0
    /\ failedCount = 0
    /\ summary = [succeeded |-> 0, failed |-> 0, failures |-> << >>]
    /\ stream = << >>

\* Top of the loop body: emitPhaseUpdate("queued"), then runScrapeJob is called.
EmitQueued ==
    /\ pc = "loop"
    /\ MoreJobs
    /\ Emit(ProgressUpdate("queued"))
    /\ pc' = "job"
    /\ dpc' = "start"
    /\ jobProm' = 0
    /\ context' = "none"
    /\ page' = "none"
    /\ outcome' = NoOutcome
    /\ closeErrors' = {}
    /\ timedOut' = {}
    /\ UNCHANGED <<browserVars, callerVars, urls, driverName, jobIndex,
                   succeededCount, failedCount, summary, effects>>
    /\ UNCHANGED <<callVars, requestVars, httpVars, crawlVars, verifyVars, mapVars>>

\* A try block that tallies a failure without keeping its details.
ExecTerminalDropsFailures ==
    /\ pc = "job"
    /\ dpc = "return"
    /\ LET record == DriverResult(driverName, targetUrl, outcome)
           ok == record.status = "success"
           succ == IF ok THEN succeededCount + 1 ELSE succeededCount
           fail == IF ok THEN failedCount ELSE failedCount + 1
       IN  /\ succeededCount' = succ
           /\ failedCount' = fail
           /\ summary' =
                IF ok
                THEN [summary EXCEPT !.succeeded = @ + 1]
                ELSE [summary EXCEPT !.failed = @ + 1]
           /\ Emit(TerminalRecord(record, succ, fail))
    /\ jobIndex' = jobIndex + 1
    /\ pc' = "loop"
    /\ dpc' = "idle"
    /\ UNCHANGED <<browserVars, callerVars, urls, driverName, jobProm, context,
                   page, outcome, closeErrors, timedOut,
                   effects>>
    /\ UNCHANGED <<callVars, requestVars, httpVars, crawlVars, verifyVars, mapVars>>

\* runScrapeJob returned `record`: the tail of the try block.
ExecTerminal ==
    /\ pc = "job"
    /\ dpc = "return"
    /\ LET record == DriverResult(driverName, targetUrl, outcome)
           ok == record.status = "success"
           succ == IF ok THEN succeededCount + 1 ELSE succeededCount
           fail == IF ok THEN failedCount ELSE failedCount + 1
       IN  /\ succeededCount' = succ
           /\ failedCount' = fail
           /\ summary' =
                IF ok
                THEN [summary EXCEPT !.succeeded = @ + 1]
                ELSE [summary EXCEPT !.failed = @ + 1,
                                     !.failures = @ \o record.errors]
           /\ Emit(TerminalRecord(record, succ, fail))
    /\ jobIndex' = jobIndex + 1
    /\ pc' = "loop"
    /\ dpc' = "idle"
    /\ UNCHANGED <<browserVars, callerVars, urls, driverName, jobProm, context,
                   page, outcome, effects>>
    /\ UNCHANGED <<closeErrors, timedOut>>
    /\ UNCHANGED <<callVars, requestVars, httpVars, crawlVars, verifyVars, mapVars>>

\* No catch branch: the exception leaves the loop and ends the stream.
ExecCatchRethrows(message) ==
    /\ pc = "job"
    /\ dpc = "start"
    /\ pc' = "aborted"
    /\ dpc' = "idle"
    /\ outcome' = [kind |-> "thrown", raw |-> message, status |-> 0]
    /\ UNCHANGED <<browserVars, callerVars, urls, driverName, jobIndex,
                   succeededCount, failedCount, summary, stream, jobProm,
                   context, page, closeErrors, timedOut,
                   effects>>
    /\ UNCHANGED <<callVars, requestVars, httpVars, crawlVars, verifyVars, mapVars>>

\* runScrapeJob threw `message`: the catch branch.
ExecCatch(message) ==
    /\ pc = "job"
    /\ dpc = "start"
    /\ succeededCount' = succeededCount
    /\ failedCount' = failedCount + 1
    /\ summary' = [summary EXCEPT
                     !.failed = @ + 1,
                     !.failures = Append(@, SynthesizedDetail(targetUrl, message))]
    /\ Emit(ErrorRecord(message, succeededCount, failedCount + 1))
    /\ jobIndex' = jobIndex + 1
    /\ pc' = "loop"
    /\ dpc' = "idle"
    /\ outcome' = [kind |-> "thrown", raw |-> message, status |-> 0]
    /\ UNCHANGED <<browserVars, callerVars, urls, driverName, jobProm, context,
                   page, effects>>
    /\ UNCHANGED <<closeErrors, timedOut>>
    /\ UNCHANGED <<callVars, requestVars, httpVars, crawlVars, verifyVars, mapVars>>

\* After the loop: the summary record.
EmitSummary ==
    /\ pc = "loop"
    /\ ~MoreJobs
    /\ Emit(summaryRecord)
    /\ pc' = "done"
    /\ UNCHANGED <<browserVars, callerVars, urls, driverName, jobIndex,
                   succeededCount, failedCount, summary, jobVars>>
    /\ UNCHANGED <<callVars, requestVars, httpVars, crawlVars, verifyVars, mapVars>>


(* ------------------ full-render driver (playwright) -------------------- *)

Failed(raw) == [kind |-> "fail", raw |-> raw, status |-> 0]

\* The browser the job holds still answers (it throws once disconnected).
BrowserUp == jobProm # 0 /\ launches[jobProm] \in {"connected", "closing"}

InPlaywright(at) == pc = "job" /\ driverName = "playwright" /\ dpc = at

\* notifyPhase(phase): `await reportPhase(phase)` inside a try/catch that
\* only logs.  The callback appends the progress record to the stream, or it
\* throws before doing so.
notifyPhase(phase, throws) ==
    IF throws THEN UNCHANGED stream ELSE Emit(ProgressUpdate(phase))

\* The exception of a throwing phase callback.
HookError == <<"reportPhase failed">>

\* A navigation step that lets the callback's exception reach the catch
\* block of the job.
PwNavigateHookFatal(throws) ==
    /\ InPlaywright("navigate")
    /\ IF throws
       THEN /\ outcome' = Failed(HookError)
            /\ dpc' = "finally"
            /\ UNCHANGED <<stream, effects>>
       ELSE /\ Emit(ProgressUpdate("navigating"))
            /\ effects' = effects \cup {<<sequence, "goto">>}
            /\ \/ /\ BrowserUp
                  /\ dpc' = "ready"
                  /\ UNCHANGED outcome
               \/ \E raw \in RawErrors :
                    /\ outcome' = Failed(raw)
                    /\ dpc' = "finally"
    /\ UNCHANGED <<browserVars, callerVars, urls, driverName, pc, jobIndex,
                   succeededCount, failedCount, summary, jobProm, context, page>>
    /\ UNCHANGED <<closeErrors, timedOut>>
    /\ UNCHANGED <<callVars, requestVars, httpVars, crawlVars, verifyVars, mapVars>>

\* Entry of the try block: the extension check, then `await getBrowser()`.
PwStart ==
    /\ InPlaywright("start")
    /\ IF isBlockedExtension(Pathname(targetUrl))
       THEN /\ outcome' = Failed(DisallowedMessage(Pathname(targetUrl)))
            /\ dpc' = "finally"
            /\ UNCHANGED <<launches, nLaunch, cachedBrowserPromise, closed,
                           jobProm, effects>>
       ELSE /\ getBrowser
            /\ jobProm' = cachedBrowserPromise'
            /\ effects' = IF cachedBrowserPromise = 0
                          THEN effects \cup {<<sequence, "launch">>}
                          ELSE effects
            /\ dpc' = IF cachedBrowserPromise # 0 /\ Resolved(cachedBrowserPromise)
                      THEN "newContext" ELSE "awaitBrowser"
            /\ UNCHANGED outcome
    /\ UNCHANGED <<cachedBrowserInstance, closeCalls, callerVars, batchVars,
                   context, page>>
    /\ UNCHANGED <<closeErrors, timedOut>>
    /\ UNCHANGED <<callVars, requestVars, httpVars, crawlVars, verifyVars, mapVars>>

\* browser.newContext(contextOptions), then context.route("**/*", ...).
PwNewContext ==
    /\ InPlaywright("newContext")
    /\ \/ /\ BrowserUp
          /\ context' = "open"
          /\ dpc' = "newPage"
          /\ UNCHANGED outcome
       \/ \E raw \in RawErrors :
            /\ context' \in {"none", "open"}
            /\ outcome' = Failed(raw)
            /\ dpc' = "finally"
    /\ UNCHANGED <<browserVars, callerVars, batchVars, jobProm, page, effects>>
    /\ UNCHANGED <<closeErrors, timedOut>>
    /\ UNCHANGED <<callVars, requestVars, httpVars, crawlVars, verifyVars, mapVars>>

\* context.newPage(), setDefaultTimeout, setExtraHTTPHeaders.
PwNewPage ==
    /\ InPlaywright("newPage")
    /\ \/ /\ BrowserUp
          /\ page' = "open"
          /\ dpc' = "navigate"
          /\ UNCHANGED outcome
       \/ \E raw \in RawErrors :
            /\ page' \in {"none", "open"}
            /\ outcome' = Failed(raw)
            /\ dpc' = "finally"
    /\ UNCHANGED <<browserVars, callerVars, batchVars, jobProm, context, effects>>
    /\ UNCHANGED <<closeErrors, timedOut>>
    /\ UNCHANGED <<callVars, requestVars, httpVars, crawlVars, verifyVars, mapVars>>

\* A navigation that is not announced.
PwNavigateSilent ==
    /\ InPlaywright("navigate")
    /\ effects' = effects \cup {<<sequence, "goto">>}
    /\ \/ /\ BrowserUp
          /\ dpc' = "ready"
          /\ UNCHANGED outcome
       \/ \E raw \in RawErrors :
            /\ outcome' = Failed(raw)
            /\ dpc' = "finally"
    /\ UNCHANGED <<browserVars, callerVars, batchVars, jobProm, context, page,
                   closeErrors, timedOut, callVars,
                   requestVars,
                   httpVars, crawlVars, verifyVars, mapVars>>

\* notifyPhase("navigating"), then page.goto(job.targetUrl).
PwNavigateWith(throws) ==
    /\ InPlaywright("navigate")
    /\ notifyPhase("navigating", throws)
    /\ effects' = effects \cup {<<sequence, "goto">>}
    /\ \/ /\ BrowserUp
          /\ dpc' = "ready"
          /\ UNCHANGED outcome
       \/ \E raw \in RawErrors :
            /\ outcome' = Failed(raw)
            /\ dpc' = "finally"
    /\ UNCHANGED <<browserVars, callerVars, urls, driverName, pc, jobIndex,
                   succeededCount, failedCount, summary, jobProm, context, page>>
    /\ UNCHANGED <<closeErrors, timedOut>>
    /\ UNCHANGED <<callVars, requestVars, httpVars, crawlVars, verifyVars, mapVars>>

\* The navigation with a phase callback that does not throw.
PwNavigate == PwNavigateWith(FALSE)

\* The waits whose timeout is logged and ignored.
ReadinessWaits == {"body", "networkidle"}

\* Readiness waits whose timeout ends the job.
PwReadyFatalWaits ==
    /\ InPlaywright("ready")
    /\ \E late \in SUBSET ReadinessWaits :
         /\ timedOut' = late
         /\ IF late # {}
            THEN /\ outcome' = Failed(<<"page.waitForSelector: ", "Timeout",
                                        " 10000ms exceeded">>)
                 /\ dpc' = "finally"
            ELSE /\ dpc' = "capture"
                 /\ UNCHANGED outcome
    /\ UNCHANGED <<browserVars, callerVars, batchVars, jobProm, context, page,
                   effects, closeErrors>>
    /\ UNCHANGED <<callVars, requestVars, httpVars, crawlVars, verifyVars, mapVars>>

\* The two readiness waits, each in its own try/catch (a timeout is logged
\* and ignored), then the wait for job.waitForSelector if the job has one,
\* whose failure is fatal.
PwReady ==
    /\ InPlaywright("ready")
    /\ timedOut' \in SUBSET ReadinessWaits
    /\ IF job.waitForSelector = Absent
       THEN /\ dpc' = "capture"
            /\ UNCHANGED outcome
       ELSE \/ /\ BrowserUp
               /\ dpc' = "capture"
               /\ UNCHANGED outcome
            \/ \E raw \in RawErrors :
                 /\ outcome' = Failed(raw)
                 /\ dpc' = "finally"
    /\ UNCHANGED <<browserVars, callerVars, batchVars, jobProm, context, page,
                   effects, closeErrors>>
    /\ UNCHANGED <<callVars, requestVars, httpVars, crawlVars, verifyVars, mapVars>>

\* notifyPhase("capturing"), the body, the metadata, the formats, page.title().
PwCaptureWith(throws) ==
    /\ InPlaywright("capture")
    /\ notifyPhase("capturing", throws)
    /\ \/ /\ BrowserUp
          /\ outcome' = [kind |-> "success", raw |-> NoMsg, status |-> 200]
       \/ \E raw \in RawErrors : outcome' = Failed(raw)
    /\ dpc' = "finally"
    /\ UNCHANGED <<browserVars, callerVars, urls, driverName, pc, jobIndex,
                   succeededCount, failedCount, summary, jobProm, context, page,
                   effects>>
    /\ UNCHANGED <<closeErrors, timedOut>>
    /\ UNCHANGED <<callVars, requestVars, httpVars, crawlVars, verifyVars, mapVars>>

\* The capture with a phase callback that does not throw.
PwCapture == PwCaptureWith(FALSE)

\* A finally block whose closes share one try: a throwing page.close()
\* skips context.close().
PwFinallyOneTry ==
    /\ InPlaywright("finally")
    /\ page' = IF page = "open" THEN "closed" ELSE page
    /\ \E threw \in SUBSET {"page", "context"} :
         /\ ("page" \in threw => page = "open")
         /\ ("context" \in threw => context = "open" /\ "page" \notin threw)
         /\ context' = IF context = "open" /\ "page" \notin threw
                       THEN "closed" ELSE context
         /\ closeErrors' = threw
         /\ timedOut' = {}
    /\ dpc' = "return"
    /\ UNCHANGED <<browserVars, callerVars, batchVars, jobProm, outcome, effects>>
    /\ UNCHANGED <<callVars, requestVars, httpVars, crawlVars, verifyVars, mapVars>>

\* A finally block whose failed close becomes the job's failure.
PwFinallyOverwrites ==
    /\ InPlaywright("finally")
    /\ page' = IF page = "open" THEN "closed" ELSE page
    /\ context' = IF context = "open" THEN "closed" ELSE context
    /\ \E threw \in SUBSET {"page", "context"} :
         /\ ("page" \in threw => page = "open")
         /\ ("context" \in threw => context = "open")
         /\ closeErrors' = threw
         /\ timedOut' = {}
         /\ outcome' = IF threw = {} THEN outcome ELSE Failed(<<"Target closed">>)
    /\ dpc' = "return"
    /\ UNCHANGED <<browserVars, callerVars, batchVars, jobProm, effects>>
    /\ UNCHANGED <<callVars, requestVars, httpVars, crawlVars, verifyVars, mapVars>>

\* The finally block: page.close() and context.close(), each if created and
\* each in its own try/catch.
PwFinally ==
    /\ InPlaywright("finally")
    /\ page' = IF page = "open" THEN "closed" ELSE page
    /\ context' = IF context = "open" THEN "closed" ELSE context
    /\ \E threw \in SUBSET {"page", "context"} :
         /\ ("page" \in threw => page = "open")
         /\ ("context" \in threw => context = "open")
         /\ closeErrors' = threw
         /\ timedOut' = {}
    /\ dpc' = "return"
    /\ UNCHANGED <<browserVars, callerVars, batchVars, jobProm, outcome, effects>>
    /\ UNCHANGED <<callVars, requestVars, httpVars, crawlVars, verifyVars, mapVars>>

(* --------------------- lightweight-fetch driver (http) ----------------- *)

\* The message of the AbortError fetch rejects with once the signal aborts.
AbortMessage == <<"This operation was aborted">>

\* A network error that makes fetch reject.
HttpErrors == { <<"fetch failed">> }

\* Exceptions after the response arrived: the body read breaks off, or
\* extractMetadata's new URL(canonical href, baseUrl) raises.
BodyErrors == { <<"terminated">>, <<"Invalid URL">> }

\* Responses whose status is not 2xx.
NonOkResponses ==
    { [code |-> 404, status |-> "404", statusText |-> <<" Not Found">>],
      [code |-> 504, status |-> "504", statusText |-> <<" Gateway ", "Timeout">>] }

InHttp(at) == pc = "job" /\ driverName = "http" /\ dpc = at

\* The extension check, setTimeout(() => controller.abort(), job.timeoutMs),
\* then notifyPhase("navigating") and fetch().
HttpStartWith(throws) ==
    /\ InHttp("start")
    /\ overdue' = FALSE
    /\ IF isBlockedExtension(Pathname(targetUrl))
       THEN /\ outcome' = Failed(DisallowedMessage(Pathname(targetUrl)))
            /\ dpc' = "return"
            /\ timer' = "none"
            /\ UNCHANGED <<stream, effects>>
       ELSE /\ notifyPhase("navigating", throws)
            /\ effects' = effects \cup {<<sequence, "fetch">>}
            /\ dpc' = "fetch"
            /\ timer' = "armed"
            /\ UNCHANGED outcome
    /\ UNCHANGED <<browserVars, callerVars, urls, driverName, pc, jobIndex,
                   succeededCount, failedCount, summary, jobProm, context, page>>
    /\ UNCHANGED <<closeErrors, timedOut>>
    /\ UNCHANGED <<callVars, requestVars, crawlVars, verifyVars, mapVars>>

\* The start of a fetch with a phase callback that does not throw.
HttpStart == HttpStartWith(FALSE)

\* timeoutMs have passed since the timer was set and the response is not
\* complete: a timer still armed fires and aborts the signal.
BudgetElapses ==
    /\ pc = "job"
    /\ driverName = "http"
    /\ dpc \in {"fetch", "body"}
    /\ ~overdue
    /\ overdue' = TRUE
    /\ timer' = IF timer = "armed" THEN "fired" ELSE timer
    /\ UNCHANGED <<browserVars, callerVars, batchVars, jobVars, callVars,
                   requestVars, crawlVars, verifyVars, mapVars>>

\* fetch settles: rejected by the abort, or else (clearTimeout) a 2xx
\* response (then notifyPhase("capturing")), a non-OK status, or a network
\* error.
HttpFetchWith(throws) ==
    /\ InHttp("fetch")
    /\ IF timer = "fired"
       THEN /\ outcome' = Failed(AbortMessage)
            /\ dpc' = "return"
            /\ UNCHANGED <<stream, timer>>
       ELSE /\ timer' = "cleared"
            /\ \/ /\ notifyPhase("capturing", throws)
                  /\ dpc' = "body"
                  /\ UNCHANGED outcome
               \/ \E response \in NonOkResponses :
                    /\ outcome' = [kind |-> "fail",
                                   raw |-> <<"HTTP ", response.status>>
                                             \o response.statusText,
                                   status |-> response.code]
                    /\ dpc' = "return"
                    /\ UNCHANGED stream
               \/ \E raw \in HttpErrors :
                    /\ outcome' = Failed(raw)
                    /\ dpc' = "return"
                    /\ UNCHANGED stream
    /\ UNCHANGED <<browserVars, callerVars, urls, driverName, pc, jobIndex,
                   succeededCount, failedCount, summary, jobProm, context, page,
                   effects>>
    /\ UNCHANGED <<closeErrors, timedOut>>
    /\ UNCHANGED <<callVars, requestVars, overdue, crawlVars, verifyVars, mapVars>>

\* The settling of fetch with a phase callback that does not throw.
HttpFetch == HttpFetchWith(FALSE)

\* The body is read, converted and parsed inside the try block.
HttpBody ==
    /\ InHttp("body")
    /\ \/ outcome' = [kind |-> "success", raw |-> NoMsg, status |-> 200]
       \/ \E raw \in BodyErrors : outcome' = Failed(raw)
    /\ dpc' = "return"
    /\ UNCHANGED <<browserVars, callerVars, batchVars, jobProm, context, page,
                   effects>>
    /\ UNCHANGED <<closeErrors, timedOut>>
    /\ UNCHANGED <<callVars, requestVars, httpVars, crawlVars, verifyVars, mapVars>>

(* ------------------------------ dispatcher ----------------------------- *)

\* A chooser that never looks at the selector hint.
chooseAutoDriverNoHint(j) ==
    LET domSensitive ==
          \/ j.viewport # Absent
          \/ j.locale # Absent
          \/ j.timezoneId # Absent
          \/ ~j.captureTextOnly
    IN  IF ~domSensitive THEN "http" ELSE "playwright"

\* A chooser that does not count a custom timezone as DOM-sensitive.
chooseAutoDriverIgnoresTimezone(j) ==
    IF j.waitForSelector # Absent
    THEN "playwright"
    ELSE LET domSensitive ==
               \/ j.viewport # Absent
               \/ j.locale # Absent
               \/ ~j.captureTextOnly
         IN  IF ~domSensitive THEN "http" ELSE "playwright"

chooseAutoDriver(j) ==
    IF j.waitForSelector # Absent
    THEN "playwright"
    ELSE LET domSensitive ==
               \/ j.viewport # Absent
               \/ j.locale # Absent
               \/ j.timezoneId # Absent
               \/ ~j.captureTextOnly
         IN  IF ~domSensitive THEN "http" ELSE "playwright"

\* job.driver ?? getEnv().SCRAPER_DEFAULT_DRIVER
requestedDriver(j) == IF j.driver = Absent THEN defaultDriver ELSE j.driver

resolveDriverName(j) ==
    IF requestedDriver(j) = "auto"
    THEN chooseAutoDriver(j)
    ELSE requestedDriver(j)

\* Names every object literal answers to through Object.prototype.
ObjectPrototypeKeys == {"constructor"}

\* DRIVER_MAP[name]: an own entry, an inherited member, or undefined.
DRIVER_MAP(name) ==
    IF name \in {"playwright", "http"} THEN name
    ELSE IF name \in ObjectPrototypeKeys THEN "inherited"
    ELSE "undefined"

\* resolveDriver(job): the object whose run() is called.
resolveDriver(j) ==
    LET driver == DRIVER_MAP(resolveDriverName(j))
    IN  IF driver = "undefined" THEN "playwright" ELSE driver

(* ------------------------- content negotiation ------------------------- *)

FormatLists ==
    { << >>, <<"html">>, <<"markdown">>, <<"html", "markdown">>,
      <<"markdown", "html">> }

\* What the markdown converter does with the page: text, "", or an exception.
MarkdownOutcomes == {"text", "empty", "throws"}

Includes(formats, f) == \E i \in 1..Len(formats) : formats[i] = f

requestedFormats(outputFormats) ==
    IF Len(outputFormats) > 0 THEN outputFormats ELSE <<"html">>

htmlEntry == [format |-> "html", body |-> "html"]
markdownEntry(md) == [format |-> "markdown", body |-> md]

\* A negotiation without the final fallback.
PlaywrightContentsNoFallback(outputFormats, md) ==
    LET formats == requestedFormats(outputFormats)
        includeHtml == Includes(formats, "html")
        includeMarkdown == Includes(formats, "markdown")
    IN  (IF includeHtml THEN <<htmlEntry>> ELSE << >>)
          \o (IF includeMarkdown /\ md # "throws"
              THEN <<markdownEntry(md)>> ELSE << >>)

\* The contents runPlaywrightScrape builds.
PlaywrightContents(outputFormats, md) ==
    LET formats == requestedFormats(outputFormats)
        includeHtml == Includes(formats, "html")
        includeMarkdown == Includes(formats, "markdown")
        contents ==
          (IF includeHtml \/ ~includeMarkdown THEN <<htmlEntry>> ELSE << >>)
            \o (IF includeMarkdown /\ md # "throws"
                THEN <<markdownEntry(md)>> ELSE << >>)
    IN  IF Len(contents) = 0 THEN <<htmlEntry>> ELSE contents

\* The contents buildHttpSuccess builds (`markdown` is undefined after an
\* exception and falsy when empty).
HttpContents(outputFormats, md) ==
    LET formats == requestedFormats(outputFormats)
        entries ==
          (IF Includes(formats, "html") \/ ~Includes(formats, "markdown")
           THEN <<htmlEntry>> ELSE << >>)
            \o (IF Includes(formats, "markdown") /\ md = "text"
                THEN <<markdownEntry(md)>> ELSE << >>)
    IN  IF Len(entries) > 0 THEN entries ELSE <<htmlEntry>>

(* --------------------- runScrapeJob, called directly ------------------- *)

DriverHints == {Absent, "auto", "http", "playwright", "bogus", "constructor"}

\* new URL(text) succeeds.
IsValidUrl(text) == text # "not a url"

Jobs ==
    [targetUrl : {"https://example.com/", "not a url"},
     driver : DriverHints,
     waitForSelector : {Absent, "#main"},
     viewport : {Absent, "1280x720"},
     locale : {Absent, "en-US"},
     timezoneId : {Absent, "UTC"},
     captureTextOnly : BOOLEAN,
     outputFormats : FormatLists]

InitCall ==
    /\ job \in Jobs
    /\ defaultDriver \in {"playwright", "http", "auto"}
    /\ resolved = NoResolution
    /\ result = NoResult

\* runScrapeJob: resolveDriver(job) and resolveDriverName(job).
Dispatch ==
    /\ resolved = NoResolution
    /\ resolved' = [name |-> resolveDriverName(job), driver |-> resolveDriver(job)]
    /\ UNCHANGED <<job, defaultDriver, result>>
    /\ UNCHANGED <<browserVars, callerVars, batchVars, jobVars, requestVars,
                   httpVars, crawlVars, verifyVars, mapVars>>

\* driver.run(...) returns a success envelope; runScrapeJob adds the name.
RunSucceeds ==
    /\ resolved.driver \in {"playwright", "http"}
    /\ IsValidUrl(job.targetUrl)
    /\ result = NoResult
    /\ \E md \in MarkdownOutcomes :
         result' =
           [status |-> "success",
            contents |-> IF resolved.driver = "playwright"
                         THEN PlaywrightContents(job.outputFormats, md)
                         ELSE HttpContents(job.outputFormats, md),
            driver |-> resolved.name,
            conversion |-> md]
    /\ UNCHANGED <<job, defaultDriver, resolved>>
    /\ UNCHANGED <<browserVars, callerVars, batchVars, jobVars, requestVars,
                   httpVars, crawlVars, verifyVars, mapVars>>

\* driver.run(...) returns a failure envelope: any failure of a valid job, and
\* in runPlaywrightScrape also `new URL(job.targetUrl)` raising inside the try.
RunFails ==
    /\ resolved.driver \in {"playwright", "http"}
    /\ IsValidUrl(job.targetUrl) \/ resolved.driver = "playwright"
    /\ result = NoResult
    /\ result' = [status |-> "fail", contents |-> << >>, driver |-> resolved.name,
                  conversion |-> "none"]
    /\ UNCHANGED <<job, defaultDriver, resolved>>
    /\ UNCHANGED <<browserVars, callerVars, batchVars, jobVars, requestVars,
                   httpVars, crawlVars, verifyVars, mapVars>>

\* The call rejects: the resolved object has no run() (a TypeError), or
\* runHttpScrape's `new URL(job.targetUrl)`, which precedes its try, raises.
RunThrows ==
    /\ \/ resolved.driver = "inherited"
       \/ resolved.driver = "http" /\ ~IsValidUrl(job.targetUrl)
    /\ result = NoResult
    /\ result' = [status |-> "thrown", contents |-> << >>, driver |-> "none",
                  conversion |-> "none"]
    /\ UNCHANGED <<job, defaultDriver, resolved>>
    /\ UNCHANGED <<browserVars, callerVars, batchVars, jobVars, requestVars,
                   httpVars, crawlVars, verifyVars, mapVars>>

InitJobCall ==
    InitBrowser /\ InitCallers /\ InitNoBatch /\ InitJob /\ InitCall
      /\ InitNoRequest /\ InitTimer /\ InitNoCrawl /\ InitNoVerify /\ InitNoMap

NextJob == Dispatch \/ RunSucceeds \/ RunFails \/ RunThrows

\* One call of runScrapeJob with any job a caller of the library can build.
SpecJob == InitJobCall /\ [][NextJob]_vars

(* -------------------------- payload validation ------------------------- *)

\* A parsed URL: pathname tokens, query parameter names in order, fragment.
Url(pathname, search, hash) ==
    [pathname |-> pathname, search |-> search, hash |-> hash]

\* URL.prototype.toString()
Href(u) ==
    u.pathname
      \o (IF u.search # << >> THEN <<"?">> \o u.search ELSE << >>)
      \o (IF u.hash # "" THEN <<"#", u.hash>> ELSE << >>)

\* The first position of tok in s, Len(s) + 1 if there is none.
IndexOf(s, tok) ==
    LET at == {i \in 1..Len(s) : s[i] = tok}
    IN  IF at = {} THEN Len(s) + 1 ELSE CHOOSE i \in at : \A j \in at : i <= j

\* new URL(href): the text is split at the first "#" and, before it, at the
\* first "?".
ParseUrl(href) ==
    LET h == IndexOf(href, "#")
        beforeHash == SubSeq(href, 1, h - 1)
        q == IndexOf(beforeHash, "?")
    IN  Url(SubSeq(beforeHash, 1, q - 1),
            SubSeq(beforeHash, q + 1, Len(beforeHash)),
            IF h < Len(href) THEN href[h + 1] ELSE "")

\* A trim that removes one trailing slash only.
trimPathnameOnce(pathname) ==
    IF pathname = <<"/">> THEN pathname
    ELSE IF pathname[Len(pathname)] = "/"
         THEN SubSeq(pathname, 1, Len(pathname) - 1)
         ELSE pathname

RECURSIVE trimPathname(_)
\* pathname.replace(/\/+$/, ""), "/" if nothing is left.
trimPathname(pathname) ==
    IF pathname = <<"/">> THEN pathname
    ELSE IF pathname = << >> THEN <<"/">>
    ELSE IF pathname[Len(pathname)] = "/"
         THEN trimPathname(SubSeq(pathname, 1, Len(pathname) - 1))
         ELSE pathname

\* searchParams.sort() over the names "a" < "b" (a stable sort by name).
SortParams(search) ==
    LET as == Cardinality({i \in 1..Len(search) : search[i] = "a"})
    IN  [i \in 1..Len(search) |-> IF i <= as THEN "a" ELSE "b"]

\* The canonical form both normalizers compute for a URL that parses and
\* is http(s).
canonicalizeUrl(u) == Href(Url(trimPathname(u.pathname), SortParams(u.search), ""))

DuplicateIssue(index, canonical) ==
    [index |-> index, message |-> "Duplicate target URL detected: ",
     detail |-> canonical]

IsIn(normalized, canonical) ==
    \E k \in 1..Len(normalized) : normalized[k] = canonical

RECURSIVE DedupFrom(_, _, _)
DedupFrom(raws, i, normalized) ==
    IF i > Len(raws) THEN normalized
    ELSE DedupFrom(raws, i + 1,
                   IF IsIn(normalized, canonicalizeUrl(raws[i]))
                   THEN normalized
                   ELSE Append(normalized, canonicalizeUrl(raws[i])))

\* A normalizer that drops a repeated URL and reports nothing.
normalizeTargetUrlsDedup(raws) ==
    [normalized |-> DedupFrom(raws, 1, << >>), issues |-> {}]

RECURSIVE NormalizeFrom(_, _, _, _)
\* The forEach of normalizeTargetUrls from element i on.
NormalizeFrom(raws, i, normalized, found) ==
    IF i > Len(raws) THEN [normalized |-> normalized, issues |-> found]
    ELSE LET canonical == canonicalizeUrl(raws[i])
         IN  IF IsIn(normalized, canonical)
             THEN NormalizeFrom(raws, i + 1, normalized,
                                found \cup {DuplicateIssue(i, canonical)})
             ELSE NormalizeFrom(raws, i + 1, Append(normalized, canonical), found)

\* normalizeTargetUrls(urls, ctx): the canonical list and the issues added.
normalizeTargetUrls(raws) == NormalizeFrom(raws, 1, << >>, {})

RECURSIVE ListFrom(_, _, _)
ListFrom(raws, i, normalized) ==
    IF i > Len(raws) THEN [normalized |-> normalized, issue |-> "none"]
    ELSE LET canonical == canonicalizeUrl(raws[i])
         IN  IF IsIn(normalized, canonical)
             THEN [normalized |-> << >>, issue |-> "duplicate_url"]
             ELSE ListFrom(raws, i + 1, Append(normalized, canonical))

\* canonicalizeUrlList(urls): the list, or the issue of the error it throws.
canonicalizeUrlList(raws) == ListFrom(raws, 1, << >>)

RawUrls ==
    { Url(PathRoot, << >>, ""),
      Url(PathRoot, << >>, "top"),
      Url(PathReport, << >>, ""),
      Url(PathReport \o <<"/">>, << >>, ""),
      Url(PathRoot, <<"b", "a">>, ""),
      Url(PathRoot, <<"a", "b">>, ""),
      Url(PathReport \o <<"/", "/">>, <<"b", "a">>, "top") }

RawBatches == UNION { [1..n -> RawUrls] : n \in 1..MaxJobs }

\* A POST /scrape payload arrives.
InitRequest ==
    /\ rawUrls \in RawBatches
    /\ issues = {}
    /\ urls = << >>
    /\ driverName \in {"playwright", "http"}
    /\ pc = "validate"
    /\ jobIndex = 0
    /\ succeededCount = 0
    /\ failedCount = 0
    /\ summary = [succeeded |-> 0, failed |-> 0, failures |-> << >>]
    /\ stream = << >>

\* zValidator runs scrapeRequestSchema: with an issue the hook answers 400
\* and the handler never runs; without, the handler builds the jobs and
\* opens the stream.
ValidateRequest ==
    /\ pc = "validate"
    /\ LET parsed == normalizeTargetUrls(rawUrls)
       IN  /\ issues' = parsed.issues
           /\ IF parsed.issues = {}
              THEN urls' = parsed.normalized /\ pc' = "loop"
              ELSE urls' = urls /\ pc' = "rejected"
    /\ UNCHANGED <<driverName, jobIndex, succeededCount, failedCount, summary,
                   stream, rawUrls>>
    /\ UNCHANGED <<browserVars, callerVars, jobVars, callVars, httpVars,
                   crawlVars, verifyVars, mapVars>>

(* ----------------------- a sink that rejects a write ------------------ *)

\* Text of the exception stream.writeln rejects with.
SinkError == <<"sink write failed">>

\* runScrapeJob returned `record` and was tallied, and stream.writeln rejects
\* for the terminal record: the catch branch runs. Its own write is accepted,
\* or rejected as well, and then the exception leaves the loop.
ExecTerminalSinkFails ==
    /\ pc = "job"
    /\ dpc = "return"
    /\ LET record == DriverResult(driverName, targetUrl, outcome)
           ok == record.status = "success"
           succ == IF ok THEN succeededCount + 1 ELSE succeededCount
           fail == IF ok THEN failedCount ELSE failedCount + 1
           tallied == IF ok
                      THEN [summary EXCEPT !.succeeded = @ + 1]
                      ELSE [summary EXCEPT !.failed = @ + 1,
                                           !.failures = @ \o record.errors]
       IN  /\ succeededCount' = succ
           /\ failedCount' = fail + 1
           /\ summary' = [tallied EXCEPT
                            !.failed = @ + 1,
                            !.failures =
                               Append(@, SynthesizedDetail(targetUrl, SinkError))]
           /\ \/ /\ Emit(ErrorRecord(SinkError, succ, fail + 1))
                 /\ jobIndex' = jobIndex + 1
                 /\ pc' = "loop"
              \/ /\ pc' = "aborted"
                 /\ UNCHANGED <<stream, jobIndex>>
    /\ dpc' = "idle"
    /\ UNCHANGED <<browserVars, callerVars, urls, driverName, jobProm, context,
                   page, outcome, closeErrors, timedOut,
                   effects>>
    /\ UNCHANGED <<callVars, requestVars, httpVars, crawlVars, verifyVars, mapVars>>

(* --------------------------------- crawl ------------------------------- *)

\* The pages of the site; crawl starts at StartUrl.
SiteUrls == {"u0", "u1", "u2", "u3"}
StartUrl == "u0"

\* result.links: the same-origin links of a page (an array made from a Set).
LinkLists ==
    {<< >>} \cup { <<a>> : a \in SiteUrls }
      \cup { pair \in SiteUrls \X SiteUrls : pair[1] # pair[2] }

InitCrawl ==
    /\ maxDepth \in 0..MaxDepthBound
    /\ maxPages \in 1..MaxPagesBound
    /\ queue = << [url |-> StartUrl, depth |-> 0] >>
    /\ visited = {}
    /\ scraped = 0
    /\ yielded = << >>
    /\ attempts = << >>
    /\ crawlPc = "loop"

\* The loop condition: queue.length > 0 && scraped < maxPages.
CrawlContinues == Len(queue) > 0 /\ scraped < maxPages

\* A crawl that also follows the links of the pages at maxDepth.
ShouldFollowInclusive(depth) == depth <= maxDepth

\* if (depth < maxDepth)
ShouldFollow(depth) == depth < maxDepth

\* A membership test that never finds the URL.
AlreadyVisitedNever(url) == FALSE

\* if (visited.has(url)) continue;
AlreadyVisited(url) == url \in visited

\* A skip that puts the visited item back at the end of the queue.
CrawlSkipRequeues ==
    /\ crawlPc = "loop"
    /\ CrawlContinues
    /\ AlreadyVisited(Head(queue).url)
    /\ queue' = Append(Tail(queue), Head(queue))
    /\ UNCHANGED <<maxDepth, maxPages, visited, scraped, yielded, attempts,
                   crawlPc>>
    /\ UNCHANGED <<browserVars, callerVars, batchVars, jobVars, callVars,
                   requestVars, httpVars, verifyVars, mapVars>>

\* The item shifted from the queue was visited before: continue.
CrawlSkip ==
    /\ crawlPc = "loop"
    /\ CrawlContinues
    /\ AlreadyVisited(Head(queue).url)
    /\ queue' = Tail(queue)
    /\ UNCHANGED <<maxDepth, maxPages, visited, scraped, yielded, attempts,
                   crawlPc>>
    /\ UNCHANGED <<browserVars, callerVars, batchVars, jobVars, callVars,
                   requestVars, httpVars, verifyVars, mapVars>>

\* The item is new and scrape() returns: the page is counted and yielded.
CrawlYield(links) ==
    /\ crawlPc = "loop"
    /\ CrawlContinues
    /\ ~AlreadyVisited(Head(queue).url)
    /\ queue' = Tail(queue)
    /\ visited' = visited \cup {Head(queue).url}
    /\ scraped' = scraped + 1
    /\ yielded' = Append(yielded, [url |-> Head(queue).url,
                                   depth |-> Head(queue).depth,
                                   links |-> links])
    /\ attempts' = Append(attempts, Head(queue).url)
    /\ crawlPc' = "yield"
    /\ UNCHANGED <<maxDepth, maxPages>>
    /\ UNCHANGED <<browserVars, callerVars, batchVars, jobVars, callVars,
                   requestVars, httpVars, verifyVars, mapVars>>

\* The consumer asks for the next page: the links of the page just yielded
\* are queued one level deeper, unless the page is at maxDepth.
CrawlResume ==
    /\ crawlPc = "yield"
    /\ LET last == yielded[Len(yielded)]
           fresh == SelectSeq(last.links, LAMBDA link : link \notin visited)
       IN  queue' =
             IF ShouldFollow(last.depth)
             THEN queue \o [i \in 1..Len(fresh) |->
                              [url |-> fresh[i], depth |-> last.depth + 1]]
             ELSE queue
    /\ crawlPc' = "loop"
    /\ UNCHANGED <<maxDepth, maxPages, visited, scraped, yielded, attempts>>
    /\ UNCHANGED <<browserVars, callerVars, batchVars, jobVars, callVars,
                   requestVars, httpVars, verifyVars, mapVars>>

\* A failed scrape that ends the generator.
CrawlScrapeFailsStops ==
    /\ crawlPc = "loop"
    /\ CrawlContinues
    /\ ~AlreadyVisited(Head(queue).url)
    /\ queue' = Tail(queue)
    /\ visited' = visited \cup {Head(queue).url}
    /\ attempts' = Append(attempts, Head(queue).url)
    /\ crawlPc' = "done"
    /\ UNCHANGED <<maxDepth, maxPages, scraped, yielded>>
    /\ UNCHANGED <<browserVars, callerVars, batchVars, jobVars, callVars,
                   requestVars, httpVars, verifyVars, mapVars>>

\* The item is new and scrape() throws: logged, nothing is yielded or queued.
CrawlScrapeFails ==
    /\ crawlPc = "loop"
    /\ CrawlContinues
    /\ ~AlreadyVisited(Head(queue).url)
    /\ queue' = Tail(queue)
    /\ visited' = visited \cup {Head(queue).url}
    /\ attempts' = Append(attempts, Head(queue).url)
    /\ UNCHANGED <<maxDepth, maxPages, scraped, yielded, crawlPc>>
    /\ UNCHANGED <<browserVars, callerVars, batchVars, jobVars, callVars,
                   requestVars, httpVars, verifyVars, mapVars>>

\* The loop condition fails: the generator returns.
CrawlEnd ==
    /\ crawlPc = "loop"
    /\ ~CrawlContinues
    /\ crawlPc' = "done"
    /\ UNCHANGED <<maxDepth, maxPages, queue, visited, scraped, yielded,
                   attempts>>
    /\ UNCHANGED <<browserVars, callerVars, batchVars, jobVars, callVars,
                   requestVars, httpVars, verifyVars, mapVars>>

InitCrawlOnly ==
    InitBrowser /\ InitCallers /\ InitNoBatch /\ InitJob /\ InitNoCall
      /\ InitNoRequest /\ InitTimer /\ InitCrawl /\ InitNoVerify /\ InitNoMap

NextCrawl ==
    \/ CrawlSkip
    \/ \E links \in LinkLists : CrawlYield(links)
    \/ CrawlResume
    \/ CrawlScrapeFails
    \/ CrawlEnd

\* One crawl of a site, over every link structure and every scrape outcome.
SpecCrawl == InitCrawlOnly /\ [][NextCrawl]_vars

\* The consumer keeps asking for the next page and the event loop keeps
\* running the generator.
LiveCrawl == SpecCrawl /\ WF_vars(NextCrawl)

(* ------------------------------ the system ----------------------------- *)

Init ==
    InitBrowser /\ InitCallers /\ InitBatch /\ InitJob /\ InitOptions
      /\ InitNoRequest /\ InitTimer /\ InitNoCrawl /\ InitNoVerify /\ InitNoMap

Next ==
    \/ EmitQueued
    \/ PwStart
    \/ PwNewContext
    \/ PwNewPage
    \/ PwNavigate
    \/ PwReady
    \/ PwCapture
    \/ PwFinally
    \/ HttpStart
    \/ HttpFetch
    \/ HttpBody
    \/ BudgetElapses
    \/ ExecTerminal
    \/ \E message \in ThrownErrors : ExecCatch(message)
    \/ EmitSummary
    \/ \E l \in LaunchIds : LaunchSucceed(l)
    \/ \E l \in LaunchIds : LaunchFail(l)
    \/ \E l \in LaunchIds : Disconnect(l)
    \/ closeSharedBrowser

\* One batch of POST /scrape, with the browser launching, crashing and being
\* shut down underneath it.
Spec == Init /\ [][Next]_vars


InitRequestBatch ==
    InitBrowser /\ InitCallers /\ InitRequest /\ InitJob /\ InitNoCall
      /\ InitTimer /\ InitNoCrawl /\ InitNoVerify /\ InitNoMap

\* POST /scrape from the payload on: validation, then the batch.
SpecRequest == InitRequestBatch /\ [][ValidateRequest \/ Next]_vars

\* The steps of the request's own task, which the event loop keeps running.
BatchStep ==
    \/ EmitQueued \/ PwStart \/ PwNewContext \/ PwNewPage \/ PwNavigate
    \/ PwReady \/ PwCapture \/ PwFinally \/ HttpStart \/ HttpFetch \/ HttpBody
    \/ ExecTerminal \/ EmitSummary

\* A launch in flight settles: playwright resolves or rejects it.
LaunchSettles == \E l \in LaunchIds : LaunchSucceed(l) \/ LaunchFail(l)

LiveSpec == Spec /\ WF_vars(BatchStep) /\ WF_vars(LaunchSettles)

\* A request for a single URL.
InitHook == Init /\ Len(urls) = 1

\* A phase callback of the running job throws.
HookThrows ==
    \/ PwNavigateWith(TRUE)
    \/ PwCaptureWith(TRUE)
    \/ HttpStartWith(TRUE)
    \/ HttpFetchWith(TRUE)

\* One job whose phase callback may throw at either notification.
SpecHook == InitHook /\ [][Next \/ HookThrows]_vars

\* The batch with a streaming sink that may reject a terminal record.
SpecSink == Init /\ [][Next \/ ExecTerminalSinkFails]_vars

(* ------------------------- reading the stream -------------------------- *)

IsSummary(r) == r.summary # NoSummary
IsProgress(r) == r.status = "progress"
IsTerminal(r) == r.status \in {"success", "fail", "error"} /\ ~IsSummary(r)

Positions == 1..Len(stream)
TerminalAt == {i \in Positions : IsTerminal(stream[i])}
SummaryAt == {i \in Positions : IsSummary(stream[i])}

CountersHold(r) ==
    /\ r.progress.completed + r.progress.remaining = r.total
    /\ r.progress.succeeded + r.progress.failed = r.progress.completed

(* -------------------------------- C1 ----------------------------------- *)

\* C1: every record of the stream satisfies completed + remaining = total and
\* succeeded + failed = completed, whatever the jobs' outcomes were.
C1_CountersHold == \A i \in Positions : CountersHold(stream[i])

\* A finished batch whose jobs ended in a thrown exception and a handled failure.
C1_Witness ==
    /\ pc = "done"
    /\ \E i, j \in TerminalAt :
         stream[i].status = "error" /\ stream[j].status = "fail"

(* -------------------------------- C2 ----------------------------------- *)

\* C2: the stream holds one terminal record per finished job (so `total` of
\* them once the batch is done) and one summary record, emitted after them.
C2_OneTerminalPerJob ==
    /\ \A k \in 1..jobIndex :
         Cardinality({i \in TerminalAt : stream[i].index = k}) = 1
    /\ Cardinality(TerminalAt) = jobIndex
    /\ Cardinality(SummaryAt) = IF pc = "done" THEN 1 ELSE 0
    /\ pc = "done" => Cardinality(TerminalAt) = totalJobs
    /\ \A i \in SummaryAt : \A j \in TerminalAt : j < i

C2_Witness ==
    /\ pc = "done"
    /\ totalJobs = 2
    /\ \E i \in TerminalAt : stream[i].status = "success"
    /\ \E i \in TerminalAt : stream[i].status # "success"

(* -------------------------------- C3 ----------------------------------- *)

\* C3: a summary record is the last record of the stream in every state (so
\* nothing is emitted after it), it directly follows the terminal record of
\* the last job, has index total + 1, phase "completed", completed = total
\* and remaining = 0, and a finished batch ends with it.
C3_SummaryIsLast ==
    /\ \A i \in SummaryAt :
         /\ i = Len(stream)
         /\ i > 1
         /\ IsTerminal(stream[i - 1])
         /\ stream[i - 1].index = totalJobs
         /\ stream[i].index = totalJobs + 1
         /\ stream[i].phase = "completed"
         /\ stream[i].progress.completed = totalJobs
         /\ stream[i].progress.remaining = 0
    /\ pc = "done" => Len(stream) \in SummaryAt

C3_Witness ==
    /\ pc = "done"
    /\ totalJobs = 2
    /\ IsSummary(stream[Len(stream)])
    /\ stream[Len(stream)].index = 3

(* -------------------------------- C4 ----------------------------------- *)

\* C4: whatever the jobs' outcomes, the batch reaches its end with every job
\* run to a terminal record and the summary emitted.
C4_BatchCompletes ==
    <>(/\ pc = "done"
       /\ Cardinality(TerminalAt) = totalJobs
       /\ Cardinality(SummaryAt) = 1)

\* A finished batch whose first job failed and whose second job still ran.
C4_Witness ==
    /\ pc = "done"
    /\ totalJobs = 2
    /\ \E i, j \in TerminalAt :
         /\ stream[i].index = 1 /\ stream[i].status \in {"fail", "error"}
         /\ stream[j].index = 2

(* -------------------------------- C5 ----------------------------------- *)

\* C5: records are emitted in input order: the job indices never decrease
\* along the stream, and the k-th terminal record has index k and the k-th
\* input URL.
C5_InputOrder ==
    /\ \A i, j \in Positions :
         i < j /\ ~IsSummary(stream[j]) => stream[i].index <= stream[j].index
    /\ \A i \in TerminalAt :
         LET k == Cardinality({j \in TerminalAt : j <= i})
         IN  stream[i].index = k /\ stream[i].targetUrl = urls[k]
    /\ \A i \in Positions :
         IsProgress(stream[i]) => stream[i].targetUrl = urls[stream[i].index]

\* Two jobs have finished, the first one through every phase of a render.
C5_Witness ==
    /\ Cardinality(TerminalAt) = 2
    /\ \E i \in Positions : stream[i].phase = "capturing" /\ stream[i].index = 1
    /\ \E i \in TerminalAt : stream[i].index = 2 /\ stream[i].targetUrl = urls[2]

(* -------------------------------- C6 ----------------------------------- *)

\* The step in which runScrapeJob throws and the catch branch runs.
ThrowStep == dpc = "start" /\ dpc' = "idle"

\* C6: when the driver call throws, that step emits exactly one record, the
\* job's terminal record, with status "error" and the exception's message,
\* adds one to failed (and so to completed = succeeded + failed) and appends
\* one synthesized detail for the job to the summary's failures.
C6_ThrowGivesError ==
    [][ThrowStep =>
        /\ Len(stream') = Len(stream) + 1
        /\ SubSeq(stream', 1, Len(stream)) = stream
        /\ LET r == stream'[Len(stream')]
           IN  /\ r.status = "error"
               /\ r.index = sequence
               /\ r.targetUrl = targetUrl
               /\ r.message = outcome'.raw
               /\ r.message \in ThrownErrors
               /\ r.progress.completed = sequence
               /\ r.progress.failed = failedCount + 1
               /\ r.progress.succeeded = succeededCount
               /\ summary'.failures =
                    Append(summary.failures, SynthesizedDetail(targetUrl, r.message))
        /\ failedCount' = failedCount + 1
        /\ succeededCount' = succeededCount
        /\ summary'.failed = summary.failed + 1
        /\ summary'.succeeded = summary.succeeded
        /\ Cardinality({i \in 1..Len(stream') :
                          IsTerminal(stream'[i]) /\ stream'[i].index = sequence}) = 1
       ]_vars

\* A job has just ended with an "error" record.
C6_Witness ==
    /\ outcome.kind = "thrown"
    /\ dpc = "idle"
    /\ stream[Len(stream)].status = "error"
    /\ stream[Len(stream)].message = <<"boom">>

(* -------------------------------- C7 ----------------------------------- *)

PendingLaunches == {l \in LaunchIds : launches[l] = "pending"}

\* C7: callers of getBrowser() that wait for a launch at the same time wait
\* for the same launch, and only one launch is in flight for them.
C7_OneLaunchForAll ==
    /\ \A c, d \in Callers :
         cpc[c] = "await" /\ cpc[d] = "await" => cprom[c] = cprom[d]
    /\ Cardinality(PendingLaunches) <= 1

(* -------------------------------- C8 ----------------------------------- *)

\* A call of getBrowser() by caller c in this step.
Acquires(c) == cpc[c] = "idle" /\ cpc'[c] # "idle"

\* C8: the step in which a browser disconnects leaves both caches empty, no
\* cache ever holds a disconnected browser, and a call of getBrowser() that
\* finds the promise cache empty starts a launch and never hands out a
\* disconnected browser.
C8_DisconnectClearsCaches ==
    /\ [](/\ cachedBrowserPromise # 0 =>
                launches[cachedBrowserPromise] # "disconnected"
          /\ cachedBrowserInstance # 0 =>
                launches[cachedBrowserInstance] # "disconnected")
    /\ [][/\ \A l \in LaunchIds :
               launches[l] # "disconnected" /\ launches'[l] = "disconnected"
                 => cachedBrowserPromise' = 0 /\ cachedBrowserInstance' = 0
          /\ \A c \in Callers :
               Acquires(c) =>
                 /\ launches'[cprom'[c]] # "disconnected"
                 /\ cachedBrowserPromise = 0 =>
                      /\ nLaunch' = nLaunch + 1
                      /\ cprom'[c] = nLaunch'
                      /\ launches'[cprom'[c]] = "pending"
         ]_vars

\* The first browser crashed while cached, and a caller now holds a second one.
C8_Witness ==
    /\ launches[1] = "disconnected"
    /\ closeCalls = {}
    /\ launches[2] = "connected"
    /\ cachedBrowserPromise = 2
    /\ \E c \in Callers : cpc[c] = "holding" /\ cprom[c] = 2

(* -------------------------------- C9 ----------------------------------- *)

\* C9: when a full-render job returns, the page and the context it created
\* have been closed, whatever the outcome and whichever close threw, and no
\* close of the shared browser comes from a job.
C9_JobClosesPageAndContext ==
    /\ driverName = "playwright" /\ dpc \in {"return", "idle"} =>
         /\ page \in {"none", "closed"}
         /\ context \in {"none", "closed"}
    /\ \A call \in closeCalls : call[2] = "closeSharedBrowser"

\* A job failed after its page was created, page.close() threw, and the
\* job has returned with both closed.
C9_Witness ==
    /\ driverName = "playwright"
    /\ dpc = "return"
    /\ outcome.kind = "fail"
    /\ page = "closed"
    /\ context = "closed"
    /\ "page" \in closeErrors
    /\ jobProm # 0
    /\ launches[jobProm] = "connected"

(* -------------------------------- C10 ---------------------------------- *)

Contains(message, tok) == \E i \in 1..Len(message) : message[i] = tok

\* C10: the terminal record of a job whose URL ends in a denylisted
\* extension has status "fail" and a message containing "Disallowed file
\* extension", and the job caused no launch, navigation or fetch.
C10_BlockedFailsFast ==
    \A i \in TerminalAt :
      LET r == stream[i]
      IN  isBlockedExtension(Pathname(r.targetUrl)) /\ r.status # "error" =>
            /\ r.status = "fail"
            /\ Len(r.errors) = 1
            /\ Contains(r.errors[1].message, DisallowedPrefix)
            /\ \A e \in effects : e[1] # r.index

(* -------------------------------- C11 ---------------------------------- *)

\* The terminal records of job k in the stream.
TerminalOf(k) == {j \in TerminalAt : stream[j].index = k}

\* C11: a progress record of job n has completed = n - 1, remaining =
\* total - (n - 1) and the succeeded and failed values of the terminal record
\* of job n - 1 (zero for the first job); a terminal record of job n has
\* completed = n.
C11_PreJobCounters ==
    \A i \in Positions :
      LET r == stream[i]
      IN  /\ IsProgress(r) =>
               /\ r.phase \in {"queued", "navigating", "capturing"}
               /\ r.progress.completed = r.index - 1
               /\ r.progress.remaining = r.total - (r.index - 1)
               /\ IF r.index = 1
                  THEN r.progress.succeeded = 0 /\ r.progress.failed = 0
                  ELSE \E j \in TerminalOf(r.index - 1) :
                         /\ j < i
                         /\ r.progress.succeeded = stream[j].progress.succeeded
                         /\ r.progress.failed = stream[j].progress.failed
          /\ IsTerminal(r) => r.progress.completed = r.index

\* The second job reached "capturing" after the first one failed.
C11_Witness ==
    \E i \in Positions :
      /\ IsProgress(stream[i])
      /\ stream[i].phase = "capturing"
      /\ stream[i].index = 2
      /\ stream[i].progress.failed = 1
      /\ stream[i].progress.completed = 1

(* -------------------------------- C12 ---------------------------------- *)

\* The failure details a terminal record contributes to the summary.
DetailsOf(r) ==
    IF r.status = "fail" THEN r.errors
    ELSE IF r.status = "error"
         THEN << [targetUrl |-> r.targetUrl, message |-> r.message,
                  rawMessage |-> NoMsg, httpStatusCode |-> 0] >>
         ELSE << >>

RECURSIVE FailuresThrough(_)
\* The details of the terminal records among the first n records, in order.
FailuresThrough(n) ==
    IF n = 0 THEN << >>
    ELSE FailuresThrough(n - 1)
           \o (IF IsTerminal(stream[n]) THEN DetailsOf(stream[n]) ELSE << >>)

\* C12: the summary record's succeeded is the number of success terminal
\* records, its failed the number of fail and error terminal records, and
\* its failures the in-order concatenation of their details.
C12_SummaryAccounting ==
    \A i \in SummaryAt :
      LET r == stream[i]
      IN  /\ r.summary.succeeded =
               Cardinality({j \in TerminalAt : stream[j].status = "success"})
          /\ r.summary.failed =
               Cardinality({j \in TerminalAt :
                              stream[j].status \in {"fail", "error"}})
          /\ r.summary.failures = FailuresThrough(i)
          /\ r.progress.succeeded = r.summary.succeeded
          /\ r.progress.failed = r.summary.failed

\* A summary after a thrown first job and a handled failure of the second.
C12_Witness ==
    /\ pc = "done"
    /\ Len(stream[Len(stream)].summary.failures) = 2
    /\ \E i, j \in TerminalAt :
         /\ i < j
         /\ stream[i].status = "error"
         /\ stream[j].status = "fail"

(* -------------------------------- C13 ---------------------------------- *)

\* The positions of job k's records with the given phase.
PhaseAt(k, phase) ==
    {i \in Positions :
       ~IsSummary(stream[i]) /\ stream[i].index = k /\ stream[i].phase = phase}

\* C13: the records of a job are one "queued" progress record, then at most
\* one "navigating" and at most one "capturing" progress record, navigating
\* first and never capturing alone, then one terminal record with phase
\* "completed", after which the job emits nothing.
C13_PhaseOrder ==
    \A k \in 1..totalJobs :
      LET started == k <= jobIndex \/ (k = jobIndex + 1 /\ pc = "job")
          queued == PhaseAt(k, "queued")
          navigating == PhaseAt(k, "navigating")
          capturing == PhaseAt(k, "capturing")
          completed == PhaseAt(k, "completed")
      IN  /\ Cardinality(queued) = (IF started THEN 1 ELSE 0)
          /\ Cardinality(navigating) <= 1
          /\ Cardinality(capturing) <= 1
          /\ Cardinality(completed) = (IF k <= jobIndex THEN 1 ELSE 0)
          /\ capturing # {} => navigating # {}
          /\ \A q \in queued : \A n \in navigating : q < n
          /\ \A q \in queued : \A c \in completed : q < c
          /\ \A n \in navigating : \A c \in capturing : n < c
          /\ \A t \in completed :
               /\ IsTerminal(stream[t])
               /\ \A i \in queued \cup navigating \cup capturing :
                    IsProgress(stream[i]) /\ i < t

\* One job went through all four phases, the next one from queued straight
\* to its terminal record.
C13_Witness ==
    /\ jobIndex = 2
    /\ PhaseAt(1, "capturing") # {}
    /\ PhaseAt(1, "completed") # {}
    /\ PhaseAt(2, "navigating") = {}
    /\ PhaseAt(2, "completed") # {}

(* -------------------------------- C14 ---------------------------------- *)

\* C14: a success result carries at least one content entry, whichever
\* driver ran, whatever formats were requested and whatever the markdown
\* conversion did.
C14_ContentsNeverEmpty ==
    result.status = "success" =>
      /\ Len(result.contents) >= 1
      /\ \A i \in 1..Len(result.contents) :
           result.contents[i].format \in {"html", "markdown"}

\* Only markdown was requested, the conversion produced nothing usable, and
\* the full-render driver fell back to the HTML entry.
C14_Witness ==
    /\ result.status = "success"
    /\ resolved.driver = "playwright"
    /\ job.outputFormats = <<"markdown">>
    /\ result.contents = <<htmlEntry>>

(* -------------------------------- C15 ---------------------------------- *)

\* C15: when one of the two drivers runs the job, the call ends in a success
\* or a handled failure and never in an exception.
C15_DriverNeverThrows ==
    resolved.driver \in {"playwright", "http"} =>
      result.status \in {"none", "success", "fail"}

(* -------------------------------- C17 ---------------------------------- *)

HasHint(j) == j.waitForSelector # Absent

\* C17 as stated: a job with a wait-for-selector hint resolves to the
\* full-render driver whatever its other options (the driver hint and the
\* configured default among them).
C17_HintAlwaysPlaywright ==
    resolved # NoResolution /\ HasHint(job) =>
      resolved.name = "playwright" /\ resolved.driver = "playwright"

\* C17, amended: under auto selection a job with a wait-for-selector hint
\* resolves to the full-render driver whatever its other options.
C17_HintUnderAuto ==
    resolved # NoResolution /\ HasHint(job) /\ requestedDriver(job) = "auto" =>
      resolved.name = "playwright" /\ resolved.driver = "playwright"

\* A text-only job with a hint and nothing else DOM-sensitive, under auto.
C17_Witness ==
    /\ resolved # NoResolution
    /\ HasHint(job)
    /\ requestedDriver(job) = "auto"
    /\ job.captureTextOnly
    /\ job.viewport = Absent /\ job.locale = Absent /\ job.timezoneId = Absent
    /\ resolved.driver = "playwright"

(* -------------------------------- C18 ---------------------------------- *)

\* C18: under auto selection the job resolves to the lightweight-fetch driver
\* exactly when it has no hint, no viewport, no locale, no timezone and
\* captureTextOnly is true, and to the full-render driver otherwise.
C18_AutoSelection ==
    resolved # NoResolution /\ requestedDriver(job) = "auto" =>
      LET plain == /\ job.waitForSelector = Absent
                   /\ job.viewport = Absent
                   /\ job.locale = Absent
                   /\ job.timezoneId = Absent
                   /\ job.captureTextOnly
      IN  /\ resolved.name = (IF plain THEN "http" ELSE "playwright")
          /\ resolved.driver = resolved.name

\* Auto selection (by default) sent a text-only job with a custom timezone to
\* the full-render driver.
C18_Witness ==
    /\ resolved # NoResolution
    /\ job.driver = Absent /\ defaultDriver = "auto"
    /\ job.captureTextOnly
    /\ job.timezoneId # Absent
    /\ job.waitForSelector = Absent /\ job.viewport = Absent /\ job.locale = Absent
    /\ resolved.driver = "playwright"

(* -------------------------------- C19 ---------------------------------- *)

\* C19: an explicit driver hint other than "auto" names the driver that runs
\* the job whatever its other options, and a hint that names no driver runs
\* the full-render driver.
C19_ExplicitDriver ==
    resolved # NoResolution /\ job.driver \notin {Absent, "auto"} =>
      IF job.driver \in {"playwright", "http"}
      THEN resolved.driver = job.driver
      ELSE resolved.driver = "playwright"

(* -------------------------------- C16 ---------------------------------- *)

\* Two entries of the payload have the same canonical form.
HasDuplicate(raws) ==
    \E i, j \in 1..Len(raws) :
      i < j /\ canonicalizeUrl(raws[i]) = canonicalizeUrl(raws[j])

\* C16: a payload with two URLs of the same canonical form is rejected with a
\* duplicate-URL issue naming that form; no job is built from it, no driver
\* runs, nothing is streamed, and canonicalizeUrlList raises duplicate_url
\* for the same list.
C16_DuplicateRejected ==
    pc # "validate" /\ HasDuplicate(rawUrls) =>
      /\ pc = "rejected"
      /\ \E issue \in issues :
           /\ issue.detail = canonicalizeUrl(rawUrls[issue.index])
           /\ \E i \in 1..(issue.index - 1) :
                canonicalizeUrl(rawUrls[i]) = issue.detail
      /\ urls = << >>
      /\ stream = << >>
      /\ effects = {}
      /\ dpc = "idle"
      /\ nLaunch = 0
      /\ canonicalizeUrlList(rawUrls).issue = "duplicate_url"

\* A rejected payload whose two URLs differ as sent.
C16_Witness ==
    /\ pc = "rejected"
    /\ Len(rawUrls) = 2
    /\ rawUrls[1] # rawUrls[2]
    /\ rawUrls[1].search # << >>

(* -------------------------------- C20 ---------------------------------- *)

\* C20: once close() has run, and until getBrowser() is called again, both
\* caches are empty, so that a second close() finds no browser to close.
C20_CloseIdempotent ==
    closed => cachedBrowserInstance = 0 /\ cachedBrowserPromise = 0

(* -------------------------------- C21 ---------------------------------- *)

\* C21: once timeoutMs have passed without the response being complete, the
\* lightweight-fetch driver's request has been aborted, and the run returns
\* a handled failure with the abort's message.
C21_AbortOnTimeout ==
    pc = "job" /\ driverName = "http" /\ overdue =>
      /\ timer = "fired"
      /\ dpc = "return" => outcome = Failed(AbortMessage)

(* -------------------------------- C22 ---------------------------------- *)

\* C22: canonicalizing a canonical URL changes nothing: for every URL of a
\* validated payload, canonicalize(canonicalize(u)) = canonicalize(u), and
\* a payload of the canonical URLs of an accepted payload is accepted as it is.
C22_Idempotent ==
    pc # "validate" =>
      /\ \A i \in 1..Len(rawUrls) :
           LET canonical == canonicalizeUrl(rawUrls[i])
           IN  canonicalizeUrl(ParseUrl(canonical)) = canonical
      /\ pc # "rejected" =>
           LET again == normalizeTargetUrls([i \in 1..Len(urls) |-> ParseUrl(urls[i])])
           IN  again.normalized = urls /\ again.issues = {}

\* An accepted payload with a URL that every step of the canonicalization
\* changes: trailing slashes, unsorted parameters and a fragment.
C22_Witness ==
    /\ pc = "loop"
    /\ \E i \in 1..Len(rawUrls) :
         /\ rawUrls[i] = Url(PathReport \o <<"/", "/">>, <<"b", "a">>, "top")
         /\ urls[i] = PathReport \o <<"?", "a", "b">>

(* -------------------------------- C23 ---------------------------------- *)

\* C23: a result returned by runScrapeJob has a driver field that is
\* "playwright" or "http" and names the driver whose run produced it.
C23_DriverFieldNamesRunner ==
    result.status \in {"success", "fail"} =>
      /\ result.driver \in {"playwright", "http"}
      /\ result.driver = resolved.driver

(* -------------------------------- C24 ---------------------------------- *)

\* Some page yielded before position n, one level above `depth`, links to url.
FoundOn(url, depth, n) ==
    \E j \in 1..(n - 1) :
      /\ j <= Len(yielded)
      /\ yielded[j].depth + 1 = depth
      /\ \E k \in 1..Len(yielded[j].links) : yielded[j].links[k] = url

\* C24: the first page yielded is the start URL at depth 0; every other
\* page yielded or queued at depth d was linked from a yielded page of
\* depth d - 1; at most maxPages pages are yielded, none deeper than maxDepth,
\* and nothing is visited once maxPages pages were yielded.
C24_CrawlBounds ==
    /\ Len(yielded) <= maxPages
    /\ scraped = Len(yielded)
    /\ \A i \in 1..Len(yielded) :
         /\ yielded[i].depth <= maxDepth
         /\ IF i = 1
            THEN yielded[i].url = StartUrl /\ yielded[i].depth = 0
            ELSE FoundOn(yielded[i].url, yielded[i].depth, i)
    /\ \A k \in 1..Len(queue) :
         /\ queue[k].depth <= maxDepth
         /\ IF queue[k].depth = 0
            THEN queue[k].url = StartUrl
            ELSE FoundOn(queue[k].url, queue[k].depth, Len(yielded) + 1)
    /\ \A i, j \in 1..Len(yielded) : i < j => yielded[i].depth <= yielded[j].depth

\* A crawl stopped by maxPages with a page at maxDepth yielded and work left.
C24_Witness ==
    /\ crawlPc = "done"
    /\ maxDepth = 2
    /\ Len(yielded) = maxPages
    /\ yielded[Len(yielded)].depth = maxDepth
    /\ yielded[Len(yielded)].links # << >>
    /\ queue # << >>

(* -------------------------------- C25 ---------------------------------- *)

Running(l) ==
    /\ launches[l] = "connected"
    /\ <<l, "closeSharedBrowser">> \notin closeCalls

\* C26: at any time at most one launched browser is running, and a running
\* browser is the cached one.
C26_AtMostOneRunning ==
    /\ Cardinality({l \in LaunchIds : Running(l)}) <= 1
    /\ \A l \in LaunchIds : Running(l) => cachedBrowserInstance = l

(* -------------------------------- C27 ---------------------------------- *)

\* C27: while the browser of the most recent launch is connected and
\* closeSharedBrowser has not run since that launch began, the promise cache
\* still holds that launch, so getBrowser() returns its browser and starts
\* no further launch.
C27_NewerLaunchStaysCached ==
    nLaunch > 0 /\ launches[nLaunch] = "connected" /\ ~closed =>
      cachedBrowserPromise = nLaunch

(* -------------------------------- C28 ---------------------------------- *)

\* C28: the step in which a launch fails gives the failure to every caller
\* awaiting that launch and empties the promise cache; the cache never holds
\* a failed launch, no caller is left waiting on one, and a later call of
\* getBrowser() is handed a launch that has not failed, a new one if the
\* cache was empty.
C28_LaunchFailureRetries ==
    /\ [](/\ cachedBrowserPromise # 0 => launches[cachedBrowserPromise] # "failed"
          /\ \A c \in Callers :
               /\ cpc[c] = "await" => launches[cprom[c]] = "pending"
               /\ cpc[c] = "failed" => launches[cprom[c]] = "failed")
    /\ [][/\ \A l \in LaunchIds :
               launches[l] = "pending" /\ launches'[l] = "failed" =>
                 /\ cachedBrowserPromise' = 0
                 /\ \A c \in Callers :
                      cpc[c] = "await" /\ cprom[c] = l => cpc'[c] = "failed"
          /\ \A c \in Callers :
               Acquires(c) =>
                 /\ launches'[cprom'[c]] # "failed"
                 /\ cachedBrowserPromise = 0 => launches'[cprom'[c]] = "pending"
         ]_vars

\* One caller was given the failure of the first launch, and the next call
\* of getBrowser() started a second launch.
C28_Witness ==
    /\ launches[1] = "failed"
    /\ launches[2] = "pending"
    /\ cachedBrowserPromise = 2
    /\ closeCalls = {}
    /\ \E c, d \in Callers :
         /\ cpc[c] = "failed" /\ cprom[c] = 1
         /\ cpc[d] = "await" /\ cprom[d] = 2

(* -------------------------------- C29 ---------------------------------- *)

\* C29: the finally block of a full-render job ends in the job's return with
\* the outcome determined before it, whichever close threw, and the terminal
\* record of the job is the envelope of that outcome.
C29_CleanupKeepsOutcome ==
    [][/\ driverName = "playwright" /\ dpc = "finally" /\ dpc' # "finally" =>
            /\ dpc' = "return"
            /\ pc' = "job"
            /\ outcome' = outcome
            /\ stream' = stream
       /\ driverName = "playwright" /\ dpc = "return" /\ dpc' = "idle" =>
            LET r == stream'[Len(stream')]
            IN  /\ Len(stream') = Len(stream) + 1
                /\ r.status = (IF outcome.kind = "success" THEN "success" ELSE "fail")
                /\ r.errors = (IF outcome.kind = "success" THEN << >>
                               ELSE FailureErrors("playwright", targetUrl, outcome))
                /\ r.driver = "playwright"
      ]_vars

\* Both closes of a successful job threw, and its terminal record is a success.
C29_Witness ==
    /\ driverName = "playwright"
    /\ dpc = "idle"
    /\ closeErrors = {"page", "context"}
    /\ outcome.kind = "success"
    /\ stream # << >>
    /\ IsTerminal(stream[Len(stream)])
    /\ stream[Len(stream)].status = "success"

(* -------------------------------- C30 ---------------------------------- *)

\* C30: a lightweight-fetch job that received a 2xx response (it announced
\* "capturing", which follows the status check) returns success.
C30_NoFailureAfter2xx ==
    pc = "job" /\ driverName = "http" /\ dpc = "return"
      /\ PhaseAt(sequence, "capturing") # {}
      => outcome.kind = "success"

(* -------------------------------- C31 ---------------------------------- *)

\* C31: in the full-render driver the readiness waits never fail the job:
\* without a waitForSelector the step past them always goes on to capturing
\* with the outcome untouched, whichever of them timed out, and with one it
\* either goes on to capturing or the selector wait fails the job.  A
\* failure of the navigation or of the selector wait leaves the try block
\* with a handled failure and no "capturing" record for the job.
C31_ReadinessWaitsNotFatal ==
    [][ /\ InPlaywright("ready") /\ dpc' # "ready" =>
            /\ job.waitForSelector = Absent =>
                 dpc' = "capture" /\ outcome' = outcome
            /\ \/ dpc' = "capture" /\ outcome' = outcome
               \/ /\ job.waitForSelector # Absent
                  /\ dpc' = "finally"
                  /\ outcome'.kind = "fail"
                  /\ PhaseAt(sequence, "capturing") = {}
                  /\ stream' = stream
        /\ InPlaywright("navigate") /\ dpc' # "navigate" =>
            \/ dpc' = "ready" /\ outcome' = outcome
            \/ /\ dpc' = "finally"
               /\ outcome'.kind = "fail"
               /\ PhaseAt(sequence, "capturing")' = {}
        /\ (driverName = "playwright" /\ pc = "job" /\ dpc = "return"
              /\ PhaseAt(sequence, "capturing") = {}) => outcome.kind = "fail"
      ]_vars

\* Both readiness waits of a job timed out, the job announced "capturing"
\* and it leaves the try block with a success.
C31_Witness ==
    /\ InPlaywright("finally")
    /\ timedOut = ReadinessWaits
    /\ outcome.kind = "success"
    /\ PhaseAt(sequence, "capturing") # {}

(* -------------------------------- C32 ---------------------------------- *)

\* C32: when verify has returned or thrown, neither the page nor the context
\* it opened is still open, and no close of the shared browser came from it.
C32_VerifyClosesWhatItOpened ==
    vpc \in {"returned", "threw"} =>
      /\ vcontext # "open"
      /\ vpage # "open"
      /\ \A call \in closeCalls : call[2] = "closeSharedBrowser"

(* -------------------------------- C33 ---------------------------------- *)

\* C33: what a driver step that reports a phase does to the job depends only
\* on the step's own work (navigation, capture, fetch), never on whether the
\* phase callback threw: the outcome is untouched or a failure of that work,
\* no outcome carries the callback's exception, and the terminal record is
\* the translation of the outcome whether or not the job's progress records
\* were delivered.
C33_HookNeverFailsJob ==
    [][ /\ InPlaywright("navigate") /\ dpc' \notin {dpc, "idle"} =>
            \/ dpc' = "ready" /\ outcome' = outcome
            \/ dpc' = "finally" /\ outcome' \in {Failed(raw) : raw \in RawErrors}
        /\ InPlaywright("capture") /\ dpc' \notin {dpc, "idle"} =>
            /\ dpc' = "finally"
            /\ \/ outcome'.kind = "success"
               \/ outcome' \in {Failed(raw) : raw \in RawErrors}
        /\ InHttp("start") /\ dpc' \notin {dpc, "idle"} =>
            IF isBlockedExtension(Pathname(targetUrl))
            THEN dpc' = "return"
                   /\ outcome' = Failed(DisallowedMessage(Pathname(targetUrl)))
            ELSE dpc' = "fetch" /\ outcome' = outcome
        /\ InHttp("fetch") /\ dpc' \notin {dpc, "idle"} =>
            \/ dpc' = "body" /\ outcome' = outcome
            \/ dpc' = "return" /\ outcome'.kind = "fail"
        /\ outcome'.raw # HookError
        /\ pc = "job" /\ dpc = "return" /\ dpc' = "idle" =>
            /\ Len(stream') = Len(stream) + 1
            /\ stream'[Len(stream')].status =
                 (IF outcome.kind = "success" THEN "success" ELSE "fail")
      ]_vars

\* Both phase callbacks of a full-render job threw (the stream holds neither
\* its "navigating" nor its "capturing" record) and its terminal record is a
\* success.
C33_Witness ==
    /\ driverName = "playwright"
    /\ dpc = "idle"
    /\ stream # << >>
    /\ IsTerminal(stream[Len(stream)])
    /\ stream[Len(stream)].status = "success"
    /\ PhaseAt(stream[Len(stream)].index, "navigating") = {}
    /\ PhaseAt(stream[Len(stream)].index, "capturing") = {}

(* -------------------------------- C34 ---------------------------------- *)

\* C34: in every terminal record with status "fail" the detail's message is
\* the error-mapping table's image of the detail's rawMessage.
C34_MessageIsMapped ==
    \A i \in Positions :
      IsTerminal(stream[i]) /\ stream[i].status = "fail" =>
        /\ Len(stream[i].errors) = 1
        /\ stream[i].errors[1].message =
             mapErrorToPageError(stream[i].errors[1].rawMessage)

(* -------------------------------- C35 ---------------------------------- *)

\* The text holds the pattern, whatever the case of its letters.
TextHas(pattern) ==
    \E i \in 1..Len(errorText) : LowerAll(<<errorText[i]>>) = <<pattern>>

\* C35: the mapped message is "Timed out while loading the page" if the text
\* holds a timeout pattern, otherwise "DNS resolution failed for the
\* requested host" if it holds net::ERR_NAME_NOT_RESOLVED, otherwise
\* "Connection error encountered while fetching the page" if it holds
\* net::ERR_CONNECTION, and otherwise the text itself.
C35_FirstMatchTable ==
    pageError # NoMsg =>
      pageError =
        CASE TextHas("timeout") -> <<"Timed out while loading the page">>
          [] ~TextHas("timeout") /\ TextHas("net::err_name_not_resolved") ->
               <<"DNS resolution failed for the requested host">>
          [] ~TextHas("timeout") /\ ~TextHas("net::err_name_not_resolved")
               /\ TextHas("net::err_connection") ->
               <<"Connection error encountered while fetching the page">>
          [] OTHER -> errorText

\* A text that holds both a DNS-resolution and a timeout pattern, the DNS one
\* first, was mapped to the timeout message.
C35_Witness ==
    /\ Len(errorText) >= 2
    /\ LowerAll(<<errorText[1]>>) = <<"net::err_name_not_resolved">>
    /\ TextHas("timeout")
    /\ pageError = <<"Timed out while loading the page">>

(* -------------------------------- C36 ---------------------------------- *)

\* The result's content list has an entry of the format.
HasEntry(format) ==
    \E i \in 1..Len(result.contents) : result.contents[i].format = format

\* C36: a success result has a markdown entry exactly when markdown was
\* requested and the conversion did not throw, and an HTML entry exactly
\* unless markdown alone was requested and its entry was produced.
C36_ContentsMatchRequest ==
    result.status = "success" =>
      LET formats == requestedFormats(job.outputFormats)
          onlyMarkdown == Includes(formats, "markdown") /\ ~Includes(formats, "html")
      IN  /\ HasEntry("markdown") <=>
               (Includes(formats, "markdown") /\ result.conversion # "throws")
          /\ HasEntry("html") <=> ~(onlyMarkdown /\ HasEntry("markdown"))

(* -------------------------------- C37 ---------------------------------- *)

\* The yielded page links to the URL.
LinksTo(i, url) == \E k \in 1..Len(yielded[i].links) : yielded[i].links[k] = url

\* C37: scrape() is called at most once with any URL.
C37_ScrapedOnce ==
    \A i, j \in 1..Len(attempts) : i # j => attempts[i] # attempts[j]

\* The crawl has emptied its queue; a URL that two followed pages link to
\* was scraped, and a followed page links back to the start URL.
C37_Witness ==
    /\ crawlPc = "done"
    /\ queue = << >>
    /\ \E i, j \in 1..Len(yielded) : \E url \in SiteUrls :
         /\ i # j
         /\ ShouldFollow(yielded[i].depth) /\ ShouldFollow(yielded[j].depth)
         /\ LinksTo(i, url) /\ LinksTo(j, url)
         /\ \E k \in 1..Len(attempts) : attempts[k] = url
    /\ \E i \in 1..Len(yielded) :
         ShouldFollow(yielded[i].depth) /\ LinksTo(i, StartUrl)

(* -------------------------------- C38 ---------------------------------- *)

\* C38: a step in which scrape() was called and nothing was yielded leaves
\* the count of scraped pages alone and the generator in its loop with the
\* rest of the queue; the count is always the number of pages yielded.
C38_FailureSkipsPage ==
    [][ /\ Len(attempts') = Len(attempts) + 1 /\ yielded' = yielded =>
            /\ scraped' = scraped
            /\ crawlPc' = "loop"
            /\ queue' = Tail(queue)
        /\ scraped' = Len(yielded')
      ]_vars

\* scrape() failed for the start URL's first link, the crawl went on, and it
\* stopped after maxPages pages with more attempts than pages.
C38_Witness ==
    /\ crawlPc = "done"
    /\ Len(yielded) = maxPages
    /\ Len(attempts) > maxPages
    /\ Len(yielded) >= 2
    /\ attempts[1] = yielded[1].url
    /\ attempts[2] # yielded[2].url

(* -------------------------------- C39 ---------------------------------- *)

\* C39: every crawl ends.
C39_CrawlTerminates == <>(crawlPc = "done")

\* A crawl has ended in which every page links back to the start URL and
\* to another page, and in which a scrape failed.
C39_Witness ==
    /\ crawlPc = "done"
    /\ yielded # << >>
    /\ \A i \in 1..Len(yielded) :
         LinksTo(i, StartUrl) /\ Len(yielded[i].links) = 2
    /\ Len(attempts) > Len(yielded)

=============================================================================
